---- MODULE Spec2Model ----
(***************************************************************************)
(* Orchestration of the health checks of k8s_daily_monitor:                *)
(*   - HealthChecker.run_check      (per-addon mode, services/health_checker.py) *)
(*   - DailyChecker.run_daily_check (daily mode, services/daily_checker.py)  *)
(*   - CheckerRegistry.run_all      (plugin registry, checkers/registry.py)  *)
(* One worker executes one operation at a time.  The database is modelled  *)
(* as the committed rows (db) and the pending changes of the SQLAlchemy    *)
(* session of the running pass (session); a row keeps the columns the      *)
(* orchestration reads or writes.  Time is the number of the pass.         *)
(***************************************************************************)
EXTENDS Integers, Sequences, FiniteSets, TLC

(* ---------------- bounds ---------------- *)
MaxPasses == 2        \* orchestration passes in one behaviour
MaxNodes == 2         \* nodes listed by kubectl get nodes
MaxComponents == 2    \* items listed by kubectl get componentstatuses
MaxPods == 1          \* pods listed by kubectl get pods -n kube-system
MaxClientPasses == 1  \* etcd-leader probes each thread runs
MaxComponentPods == 2  \* pods backing one control-plane component
MaxSystemPods == 2     \* pods matching the label of a system addon
MaxNodeCount == 2      \* nodes counted for a DaemonSet addon
MaxApps == 2           \* ArgoCD applications listed
MaxHosts == 2          \* hosts in the statistics of a playbook run
MaxEtcdPods == 2       \* etcd pods listed in kube-system
MaxListedNodes == 3    \* nodes in the list a node checker reads
MaxOutcomes == 3       \* outcomes in one aggregated collection
MaxRegisterCalls == 2 \* register() calls after the import
MaxRegistered == 2    \* checker classes registered at import time

(* ---------------- program constants ---------------- *)
SlowThresholdMs == 3000        \* latency threshold of the HTTP checks
HttpTimeoutMs == 10000         \* response time reported on httpx timeout
CheckTimeoutSeconds == 30      \* settings.check_timeout_seconds
RestartLimit == 10             \* restarts above which a pod is reported
EtcdDbLimit == 104857600       \* 100 * 1024 * 1024 bytes
MegaByte == 1048576            \* 1024 * 1024
NoneInt == -1                  \* Python None in an integer column

(* StatusEnum of models/cluster.py *)
StatusEnum == {"healthy", "warning", "critical"}

(* CheckStatus of checkers/base.py *)
CheckStatus == {"healthy", "warning", "critical", "unknown"}

(* ---------------- configuration rows (CRUD layer) ---------------- *)
(* clusters table: two clusters exist, the id "cX" resolves to nothing *)
Clusters == {"c1", "c2"}
ClusterIds == Clusters \cup {"cX"}

(* a row of the addons table as the CRUD layer creates it (models/addon.py) *)
AddonRow(c, n, t, pb) ==
  [cluster_id |-> c, name |-> n, type |-> t, check_playbook |-> pb,
   status |-> "healthy", response_time |-> NoneInt, last_check |-> 0]

EtcdAddon == AddonRow("c1", "etcd", "etcd-leader", "None")
HttpAddon == AddonRow("c1", "Metrics Server", "metrics", "None")
ScriptAddon(c) == AddonRow(c, "Ingress", "ingress", "check_ingress.yml")

(* ids an addon row can have *)
AddonIds == {"a1", "a2", "a3", "b1", "b2"}

(* query(Addon).filter(Addon.cluster_id == cluster_id) *)
AddonsOf(d, c) == {a \in DOMAIN d.addons : d.addons[a].cluster_id = c}

(* every order in which a query without ORDER BY can return a set of rows *)
Orderings(S) ==
  {s \in [1..Cardinality(S) -> S] : \A x \in S : \E k \in DOMAIN s : s[k] = x}

(* ---------------- small helpers ---------------- *)
Remove(s, k) == [j \in 1..(Len(s) - 1) |-> IF j < k THEN s[j] ELSE s[j + 1]]

RECURSIVE SeqsUpTo(_, _)
SeqsUpTo(S, n) ==
  IF n = 0 THEN {<<>>}
  ELSE LET shorter == SeqsUpTo(S, n - 1)
       IN shorter \cup {Append(s, x) : s \in {t \in shorter : Len(t) = n - 1}, x \in S}

NoDetails == [null |-> TRUE, keys |-> {}]
Details(ks) == [null |-> FALSE, keys |-> ks]

(* value of a probe function: a returned tuple, or an exception that left it *)
Returned(s, m, t, d) ==
  [raised |-> FALSE, exc |-> "", status |-> s, message |-> m,
   response_time |-> t, details |-> d]
Raised(e) ==
  [raised |-> TRUE, exc |-> e, status |-> "critical", message |-> "",
   response_time |-> 0, details |-> NoDetails]

(* ======================================================================= *)
(* Probes of HealthChecker (services/health_checker.py)                    *)
(* ======================================================================= *)

(* ---- what the outside world answers to one probe ---- *)
(* kind "raise": the probe function itself raises (failed import at its    *)
(* first lines, or a probe instrumented to throw)                          *)
EtcdPod(n, p, r) == [name |-> n, phase |-> p, ready |-> r]

EtcdEnv(k, ps, ex, size) ==
  [kind |-> k, pods |-> ps, exec |-> ex, dbSize |-> size, ms |-> 120,
   is_leader |-> TRUE, version |-> "3.5.9", raftTerm |-> 7, err |-> "ApiException"]

OneReadyPod == <<EtcdPod("etcd-0", "Running", TRUE)>>
MixedPods == <<EtcdPod("etcd-0", "Running", TRUE), EtcdPod("etcd-1", "Pending", FALSE)>>

EtcdEnvs ==
  { EtcdEnv("raise", <<>>, "json", 0),
    EtcdEnv("list_error", <<>>, "json", 0),
    EtcdEnv("list_no_answer", <<>>, "json", 0),
    EtcdEnv("listed", <<>>, "json", 0),
    EtcdEnv("listed", <<EtcdPod("etcd-0", "Pending", FALSE)>>, "json", 0),
    EtcdEnv("listed", OneReadyPod, "json", EtcdDbLimit),
    EtcdEnv("listed", OneReadyPod, "json", EtcdDbLimit + 1),
    EtcdEnv("listed", OneReadyPod, "nonjson", 0),
    EtcdEnv("listed", OneReadyPod, "error", 0),
    EtcdEnv("listed", OneReadyPod, "no_answer", 0),
    EtcdEnv("listed", MixedPods, "nonjson", 0),
    EtcdEnv("listed", MixedPods, "error", 0) }

AnsibleEnv(k, rc) == [kind |-> k, returncode |-> rc, ms |-> 800, stderr |-> "fatal: unreachable"]

AnsibleEnvs ==
  { AnsibleEnv("exit", 0), AnsibleEnv("exit", 2), AnsibleEnv("timeout", 0),
    AnsibleEnv("error", 0), AnsibleEnv("raise", 0) }

HttpEnv(k, code, t) == [kind |-> k, status_code |-> code, ms |-> t, err |-> "ConnectError"]

HttpEnvs ==
  { HttpEnv("response", 200, 50), HttpEnv("response", 200, SlowThresholdMs + 1),
    HttpEnv("response", 503, 50), HttpEnv("timeout", 0, 0),
    HttpEnv("error", 0, 0), HttpEnv("raise", 0, 0) }

(* ---- HealthChecker._check_etcd_leader ---- *)
RunningPods(ps) == {k \in DOMAIN ps : ps[k].phase = "Running"}

FirstRunning(ps) == CHOOSE k \in RunningPods(ps) : \A j \in RunningPods(ps) : k <= j

(* round(db_size / (1024 * 1024), 2), kept to whole megabytes *)
DbSizeMb(size) == size \div MegaByte

(* faulty variant: a database of exactly the limit is large already *)
DbLargeAtLimit(db_size) == db_size # 0 /\ db_size >= EtcdDbLimit

(* db_size and db_size > 100 * 1024 * 1024 *)
DbLarge(db_size) == db_size # 0 /\ db_size > EtcdDbLimit

(* the Kubernetes client calls carry no timeout: list_namespaced_pod and the *)
(* pod exec stream return only when the API server answers                   *)
EtcdBlocks(env) ==
  \/ env.kind = "list_no_answer"
  \/ /\ env.kind = "listed"
     /\ RunningPods(env.pods) # {}
     /\ env.exec = "no_answer"

_check_etcd_leader(addon, env) ==
  IF env.kind = "raise" THEN Raised("ImportError")
  ELSE IF env.kind # "listed"
  THEN Returned("critical", "etcd leader check failed: " \o env.err, 0, Details({"error"}))
  ELSE IF env.pods = <<>>
  THEN Returned("critical", "No etcd pods found in kube-system", 0, Details({"error"}))
  ELSE IF RunningPods(env.pods) = {}
  THEN Returned("critical", "No running etcd pods found", 0, Details({"pods"}))
  ELSE
    LET pod_name == env.pods[FirstRunning(env.pods)].name
        members == ToString(Len(env.pods))
        all_ready == \A k \in DOMAIN env.pods : env.pods[k].ready
        all_running == \A k \in DOMAIN env.pods : env.pods[k].phase = "Running"
        mb == ToString(DbSizeMb(env.dbSize))
    IN
    IF env.exec = "json"
    THEN IF DbLarge(env.dbSize)
         THEN Returned("warning",
                "etcd leader healthy but DB large (" \o mb \o "MB) - Pod: " \o pod_name,
                env.ms, Details({"pod_name", "is_leader", "db_size_mb", "pods"}))
         ELSE Returned("healthy",
                "etcd " \o (IF env.is_leader THEN "Leader" ELSE "Follower")
                  \o " healthy - v" \o env.version \o ", DB: " \o mb
                  \o "MB, Term: " \o ToString(env.raftTerm),
                env.ms, Details({"pod_name", "is_leader", "db_size_mb", "pods"}))
    ELSE IF env.exec = "nonjson"
    THEN IF all_ready
         THEN Returned("healthy",
                "etcd pod " \o pod_name \o " running and ready (" \o members \o " members)",
                env.ms, Details({"pod_name", "pods", "note"}))
         ELSE Returned("warning",
                "etcd pods partially ready (" \o members \o " members)",
                env.ms, Details({"pod_name", "pods", "note"}))
    ELSE IF all_running
         THEN Returned("healthy",
                "etcd pods running (" \o members \o " members) - exec unavailable",
                env.ms, Details({"pod_name", "pods", "exec_error"}))
         ELSE Returned("warning", "etcd check partial - pods status mixed",
                env.ms, Details({"pod_name", "pods", "exec_error"}))

(* ---- HealthChecker._run_ansible_check ---- *)
_run_ansible_check(addon, env) ==
  IF env.kind = "raise" THEN Raised("RuntimeError")
  ELSE IF env.kind = "timeout"
  THEN Returned("critical", addon.name \o " check timed out",
                CheckTimeoutSeconds * 1000, NoDetails)
  ELSE IF env.kind = "error"
  THEN Returned("critical", addon.name \o " check error: FileNotFoundError", 0, NoDetails)
  ELSE IF env.returncode = 0
  THEN Returned("healthy", addon.name \o " check passed", env.ms, NoDetails)
  ELSE Returned("warning", addon.name \o " check failed: " \o env.stderr, env.ms, NoDetails)

(* ---- HealthChecker._run_http_check ---- *)
(* faulty variant: a name without a mapping is sent to /health *)
endpoint_map_health(name) ==
  IF name = "API Server" THEN "/healthz"
  ELSE IF name = "etcd" THEN "/health"
  ELSE IF name = "Metrics Server" THEN "/metrics"
  ELSE "/health"

endpoint_map(name) ==
  IF name = "API Server" THEN "/healthz"
  ELSE IF name = "etcd" THEN "/health"
  ELSE IF name = "Metrics Server" THEN "/metrics"
  ELSE "/healthz"

(* faulty variant: a response at the threshold already counts as slow *)
_run_http_check_at_threshold(addon, env) ==
  IF env.kind = "raise" THEN Raised("ImportError")
  ELSE IF env.kind = "timeout"
  THEN Returned("critical", addon.name \o " connection timeout", HttpTimeoutMs, NoDetails)
  ELSE IF env.kind = "error"
  THEN Returned("critical", addon.name \o " connection failed: " \o env.err, 0, NoDetails)
  ELSE IF env.status_code = 200
  THEN IF env.ms >= SlowThresholdMs
       THEN Returned("warning",
              addon.name \o " slow response (" \o ToString(env.ms) \o "ms)", env.ms, NoDetails)
       ELSE Returned("healthy",
              addon.name \o " healthy (" \o ToString(env.ms) \o "ms)", env.ms, NoDetails)
  ELSE Returned("warning",
         addon.name \o " returned " \o ToString(env.status_code), env.ms, NoDetails)

(* faulty variant: a server error is reported as critical *)
_run_http_check_server_error(addon, env) ==
  IF env.kind = "raise" THEN Raised("ImportError")
  ELSE IF env.kind = "timeout"
  THEN Returned("critical", addon.name \o " connection timeout", HttpTimeoutMs, NoDetails)
  ELSE IF env.kind = "error"
  THEN Returned("critical", addon.name \o " connection failed: " \o env.err, 0, NoDetails)
  ELSE IF env.status_code = 200
  THEN IF env.ms > SlowThresholdMs
       THEN Returned("warning",
              addon.name \o " slow response (" \o ToString(env.ms) \o "ms)", env.ms, NoDetails)
       ELSE Returned("healthy",
              addon.name \o " healthy (" \o ToString(env.ms) \o "ms)", env.ms, NoDetails)
  ELSE Returned(IF env.status_code >= 500 THEN "critical" ELSE "warning",
         addon.name \o " returned " \o ToString(env.status_code), env.ms, NoDetails)

_run_http_check(addon, env) ==
  IF env.kind = "raise" THEN Raised("ImportError")
  ELSE IF env.kind = "timeout"
  THEN Returned("critical", addon.name \o " connection timeout", HttpTimeoutMs, NoDetails)
  ELSE IF env.kind = "error"
  THEN Returned("critical", addon.name \o " connection failed: " \o env.err, 0, NoDetails)
  ELSE IF env.status_code = 200
  THEN IF env.ms > SlowThresholdMs
       THEN Returned("warning",
              addon.name \o " slow response (" \o ToString(env.ms) \o "ms)", env.ms, NoDetails)
       ELSE Returned("healthy",
              addon.name \o " healthy (" \o ToString(env.ms) \o "ms)", env.ms, NoDetails)
  ELSE Returned("warning",
         addon.name \o " returned " \o ToString(env.status_code), env.ms, NoDetails)

(* ---- HealthChecker._check_addon: dispatch and the isolation boundary ---- *)
(* the function the if/elif/else of lines 70-77 calls *)
(* faulty variant: a declared script is ignored *)
DispatchedHttpOnly(addon) ==
  IF addon.type = "etcd-leader" THEN "_check_etcd_leader" ELSE "_run_http_check"

Dispatched(addon) ==
  IF addon.type = "etcd-leader" THEN "_check_etcd_leader"
  ELSE IF addon.check_playbook # "None" THEN "_run_ansible_check"
  ELSE "_run_http_check"

(* the path of the url _run_http_check requests (lines 339-340) *)
RequestPath(addon) ==
  IF Dispatched(addon) = "_run_http_check" THEN endpoint_map(addon.name) ELSE "None"

(* E: the answers the outside world may give, one set per kind of probe *)
EnvsFor(E, addon) ==
  IF Dispatched(addon) = "_check_etcd_leader" THEN E.etcd
  ELSE IF Dispatched(addon) = "_run_ansible_check" THEN E.ansible
  ELSE E.http

ProbeOf(addon, env) ==
  IF Dispatched(addon) = "_check_etcd_leader" THEN _check_etcd_leader(addon, env)
  ELSE IF Dispatched(addon) = "_run_ansible_check" THEN _run_ansible_check(addon, env)
  ELSE _run_http_check(addon, env)

ProbeBlocks(addon, env) == addon.type = "etcd-leader" /\ EtcdBlocks(env)

(* faulty variant: no try/except around the probe *)
_check_addon_unguarded(addon, env) == ProbeOf(addon, env)

_check_addon(addon, env) ==
  LET r == ProbeOf(addon, env)
  IN IF r.raised
     THEN Returned("critical", "Check failed: " \o r.exc, 0, NoDetails)
     ELSE r

(* ---- aggregation of HealthChecker.run_check (one loop iteration) ---- *)
(* faulty variant: the status of the addon met last decides *)
AggregateStepLastWins(overall, status) == status

(* faulty variant: a warning overwrites an earlier critical *)
AggregateStepNoGuard(overall, status) ==
  IF status = "critical" THEN "critical"
  ELSE IF status = "warning" THEN "warning"
  ELSE overall

AggregateStep(overall, status) ==
  IF status = "critical" THEN "critical"
  ELSE IF status = "warning" /\ overall # "critical" THEN "warning"
  ELSE overall

(* the loop over a whole list of statuses, starting from healthy *)
RECURSIVE AggregateFrom(_, _)
AggregateFrom(overall, statuses) ==
  IF statuses = <<>> THEN overall
  ELSE AggregateFrom(AggregateStep(overall, Head(statuses)), Tail(statuses))

AggregateLoop(statuses) == AggregateFrom("healthy", statuses)

(* ======================================================================= *)
(* Probes of DailyChecker (services/daily_checker.py)                      *)
(* ======================================================================= *)
EndpointResp(k, code, t) == [kind |-> k, status_code |-> code, ms |-> t]

Ok200 == EndpointResp("response", 200, 50)

ApiEnv(c, h, l, r) == [client |-> c, healthz |-> h, livez |-> l, readyz |-> r]

ApiEnvs ==
  { ApiEnv("ok", Ok200, Ok200, Ok200),
    ApiEnv("ok", EndpointResp("response", 200, SlowThresholdMs), Ok200, Ok200),
    ApiEnv("ok", EndpointResp("response", 503, 50), Ok200, Ok200),
    ApiEnv("ok", EndpointResp("error", 0, 0), EndpointResp("error", 0, 0),
           EndpointResp("error", 0, 0)),
    ApiEnv("ok", Ok200, Ok200, EndpointResp("response", 503, 50)),
    ApiEnv("error", Ok200, Ok200, Ok200) }

(* one entry of result["details"]; status_code 0: the key is absent *)
EndpointDetail(resp) ==
  IF resp.kind = "response"
  THEN [status_code |-> resp.status_code, response_time_ms |-> resp.ms, error |-> ""]
  ELSE [status_code |-> 0, response_time_ms |-> NoneInt, error |-> "ConnectError"]

NoDetail == [status_code |-> 0, response_time_ms |-> NoneInt, error |-> ""]

(* ---- DailyChecker._check_api_server ---- *)
_check_api_server(env) ==
  IF env.client = "error"
  THEN [status |-> "critical", response_time_ms |-> NoneInt,
        details |-> [healthz |-> NoDetail, livez |-> NoDetail, readyz |-> NoDetail,
                     error |-> "client error"]]
  ELSE
    LET rt == IF env.healthz.kind = "response" THEN env.healthz.ms ELSE NoneInt
        st == IF env.healthz.kind = "response" /\ env.healthz.status_code = 200
              THEN IF rt # NoneInt /\ rt # 0 /\ rt < SlowThresholdMs
                   THEN "healthy" ELSE "warning"
              ELSE "critical"
    IN [status |-> st, response_time_ms |-> rt,
        details |-> [healthz |-> EndpointDetail(env.healthz),
                     livez |-> EndpointDetail(env.livez),
                     readyz |-> EndpointDetail(env.readyz),
                     error |-> ""]]

(* ---- APIServerChecker.check (checkers/api_server.py) ---- *)
(* the status given to one endpoint *)
endpoint_status(resp) ==
  IF resp.kind = "response"
  THEN IF resp.status_code # 200 THEN "critical"
       ELSE IF resp.ms > SlowThresholdMs THEN "warning"
       ELSE "healthy"
  ELSE "critical"

(* the time an endpoint adds to total_response_time *)
CountedMs(resp) == IF resp.kind = "response" THEN resp.ms ELSE 0

APIServerChecker_check(env) ==
  IF env.client = "error"
  THEN [raised |-> TRUE, status |-> "critical", response_time_ms |-> NoneInt]
  ELSE
    LET sts == {endpoint_status(env.healthz), endpoint_status(env.livez),
                endpoint_status(env.readyz)}
        total == CountedMs(env.healthz) + CountedMs(env.livez) + CountedMs(env.readyz)
    IN [raised |-> FALSE,
        status |-> IF "critical" \in sts THEN "critical"
                   ELSE IF "warning" \in sts THEN "warning"
                   ELSE "healthy",
        response_time_ms |-> total \div 3]

(* ---- kubectl subprocess answers ---- *)
ComponentName(k) ==
  IF k = 1 THEN "scheduler"
  ELSE IF k = 2 THEN "controller-manager"
  ELSE "etcd-" \o ToString(k - 3)

KubectlEnv(k, rc, its) ==
  [kind |-> k, returncode |-> rc, items |-> its, stderr |-> "connection refused"]

KubectlFailures ==
  { KubectlEnv("exit", 1, <<>>), KubectlEnv("timeout", 0, <<>>), KubectlEnv("error", 0, <<>>) }

(* Healthy condition of a componentstatus item: "True", "False" or absent *)
ComponentsEnvs ==
  {KubectlEnv("exit", 0, its) : its \in SeqsUpTo({"True", "False", "NoCondition"}, MaxComponents)}
    \cup KubectlFailures

(* Ready condition of a node item *)
NodesEnvs ==
  {KubectlEnv("exit", 0, its) : its \in SeqsUpTo({"True", "False"}, MaxNodes)}
    \cup KubectlFailures

(* summed restartCount of a pod item *)
PodsEnvs ==
  {KubectlEnv("exit", 0, its) : its \in SeqsUpTo({RestartLimit, RestartLimit + 1}, MaxPods)}
    \cup KubectlFailures

(* ---- DailyChecker._check_components ---- *)
ComponentEntry(k, cond) ==
  [name |-> ComponentName(k),
   status |-> IF cond = "True" THEN "healthy" ELSE "critical",
   message |-> IF cond = "True" THEN "ok"
               ELSE IF cond = "False" THEN "Get healthz: connection refused" ELSE ""]

_check_components(env) ==
  IF env.kind = "timeout" THEN [items |-> <<>>, has_error |-> TRUE, error |-> "Command timeout"]
  ELSE IF env.kind = "error"
  THEN [items |-> <<>>, has_error |-> TRUE, error |-> "FileNotFoundError"]
  ELSE IF env.returncode # 0
  THEN [items |-> <<>>, has_error |-> TRUE, error |-> env.stderr]
  ELSE [items |-> [k \in DOMAIN env.items |-> ComponentEntry(k, env.items[k])],
        has_error |-> FALSE, error |-> ""]

(* ---- DailyChecker._check_nodes ---- *)
NodeEntry(k, cond) ==
  [name |-> "node-" \o ToString(k), status |-> IF cond = "True" THEN "Ready" ELSE "NotReady"]

_check_nodes(env) ==
  IF env.kind \in {"timeout", "error"}
  THEN [nodes |-> <<>>, total |-> 0, ready |-> 0, has_error |-> TRUE]
  ELSE IF env.returncode # 0
  THEN [nodes |-> <<>>, total |-> 0, ready |-> 0, has_error |-> FALSE]
  ELSE [nodes |-> [k \in DOMAIN env.items |-> NodeEntry(k, env.items[k])],
        total |-> Len(env.items),
        ready |-> Cardinality({k \in DOMAIN env.items : env.items[k] = "True"}),
        has_error |-> FALSE]

(* ---- DailyChecker._check_system_pods ---- *)
PodEntry(k, n) ==
  [name |-> "coredns-" \o ToString(k), namespace |-> "kube-system",
   status |-> "Running", restarts |-> n]

_check_system_pods(env) ==
  IF env.kind \in {"timeout", "error"}
  THEN << [error |-> "TimeoutExpired"] >>
  ELSE IF env.returncode # 0 THEN <<>>
  ELSE [k \in DOMAIN env.items |-> PodEntry(k, env.items[k])]

(* pod.get("restarts", 0) *)
PodRestarts(pod) == IF "restarts" \in DOMAIN pod THEN pod.restarts ELSE 0

(* ---- DailyChecker._determine_overall_status ---- *)
AnyCritical(items) == \E k \in DOMAIN items : items[k].status = "critical"

(* faulty variant: the API server status alone decides *)
_determine_overall_status_api_only(api_result, components, nodes) == api_result.status

_determine_overall_status(api_result, components, nodes) ==
  IF api_result.status = "critical" THEN "critical"
  ELSE IF AnyCritical(components.items) THEN "critical"
  ELSE IF nodes.total > 0 /\ nodes.ready = 0 THEN "critical"
  ELSE IF nodes.ready < nodes.total THEN "warning"
  ELSE IF api_result.status = "warning" THEN "warning"
  ELSE "healthy"

(* ---- DailyChecker._collect_messages ---- *)
IsCriticalEntry(e) == e.status = "critical"

ManyRestarts(pod) == PodRestarts(pod) > RestartLimit

ComponentErrors(components) ==
  LET crit == SelectSeq(components.items, IsCriticalEntry)
  IN [k \in DOMAIN crit |-> "Component " \o crit[k].name \o ": " \o crit[k].message]
       \o (IF components.has_error
           THEN << "Components check failed: " \o components.error >> ELSE <<>>)

PodWarnings(pods) ==
  LET noisy == SelectSeq(pods, ManyRestarts)
  IN [k \in DOMAIN noisy |->
        "Pod " \o noisy[k].name \o " has " \o ToString(noisy[k].restarts) \o " restarts"]

(* faulty variant: the component entries are dropped *)
_collect_messages_no_components(api_result, components, nodes, pods) ==
  [errors |-> IF api_result.status = "critical" THEN << "API Server: Unhealthy" >> ELSE <<>>,
   warnings |-> PodWarnings(pods)]

_collect_messages(api_result, components, nodes, pods) ==
  LET not_ready == nodes.total - nodes.ready
  IN [errors |->
        (IF api_result.status = "critical"
         THEN << "API Server: " \o (IF api_result.details.error # ""
                                    THEN api_result.details.error ELSE "Unhealthy") >>
         ELSE <<>>)
        \o ComponentErrors(components),
      warnings |->
        (IF not_ready > 0 THEN << ToString(not_ready) \o " node(s) not ready" >> ELSE <<>>)
        \o PodWarnings(pods)]

(* "x if x else None" of a list column *)
ListOrNone(l) == [null |-> l = <<>>, list |-> l]

(* ======================================================================= *)
(* Plugin registry (checkers/registry.py, checkers/base.py)                *)
(* ---- services/checkers/__init__.py: addon.type -> Checker class ---- *)
CHECKER_REGISTRY ==
  ("etcd-leader" :> "EtcdChecker") @@ ("node-check" :> "NodeChecker")
    @@ ("control-plane" :> "ControlPlaneChecker") @@ ("system-pod" :> "SystemPodChecker")
    @@ ("nexus" :> "NexusChecker") @@ ("jenkins" :> "JenkinsChecker")
    @@ ("argocd" :> "ArgoCDChecker") @@ ("keycloak" :> "KeycloakChecker")

(* ======================================================================= *)
(* classes registered by checkers/__init__.py, in import order *)
DefaultCheckers == << "api-server", "etcd", "components", "nodes", "system-pods", "minio" >>

CheckerClass(n) == [name |-> n, enabled |-> TRUE, impl |-> "default"]

(* a class registered later under a name, e.g. a test double *)
TestDouble(n) == [name |-> n, enabled |-> TRUE, impl |-> "double"]

(* the classes a caller may hand to register(): subclasses of BaseChecker *)
CheckerClasses ==
  {CheckerClass(n) : n \in {"api-server", "etcd", "custom"}}
    \cup {TestDouble(n) : n \in {"api-server", "etcd", "custom"}}

NoneClass == [name |-> "None", enabled |-> FALSE, impl |-> "None"]

(* CheckerRegistry.register: self._checkers[name] = checker_class *)
(* faulty variant: a name already present keeps its first class *)
register_keep_first(checkers, checker_class) ==
  IF \E k \in DOMAIN checkers : checkers[k].name = checker_class.name
  THEN checkers
  ELSE Append(checkers, checker_class)

register(checkers, checker_class) ==
  IF \E k \in DOMAIN checkers : checkers[k].name = checker_class.name
  THEN [k \in DOMAIN checkers |->
          IF checkers[k].name = checker_class.name THEN checker_class ELSE checkers[k]]
  ELSE Append(checkers, checker_class)

(* CheckerRegistry.get: self._checkers.get(name) *)
get(checkers, name) ==
  IF \E k \in DOMAIN checkers : checkers[k].name = name
  THEN checkers[CHOOSE k \in DOMAIN checkers : checkers[k].name = name]
  ELSE NoneClass

(* CheckerRegistry.get_all_instances *)
IsEnabled(cls) == cls.enabled

get_all_instances(checkers, enabled_only) ==
  IF enabled_only THEN SelectSeq(checkers, IsEnabled) ELSE checkers

(* what check() of a registered checker does *)
CheckerEnvs ==
  {[kind |-> "return", status |-> st] : st \in CheckStatus}
    \cup {[kind |-> "raise", status |-> "critical"]}

CheckerResult(st, m, d) == [raised |-> FALSE, status |-> st, message |-> m, details |-> d]

(* faulty variant: run() lets the exception of check() through *)
run_unguarded(checker, env) ==
  IF env.kind = "raise"
  THEN [raised |-> TRUE, status |-> "critical", message |-> "", details |-> NoDetails]
  ELSE CheckerResult(env.status, checker.name \o " is " \o env.status, Details({}))

(* BaseChecker.run *)
run(checker, env) ==
  IF env.kind = "raise"
  THEN CheckerResult("critical", "Check failed: RuntimeError", Details({"error", "error_type"}))
  ELSE CheckerResult(env.status, checker.name \o " is " \o env.status, Details({}))

(* ======================================================================= *)
(* Node checkers                                                           *)
(* ======================================================================= *)
PRESSURE_CONDITIONS == {"DiskPressure", "MemoryPressure", "PIDPressure"}

(* a node item: the status of its Ready condition and the pressure         *)
(* conditions whose status is "True"                                       *)
NodeItem(r, p) == [ready |-> r, pressure |-> p]

NodeItems ==
  {NodeItem(r, p) : r \in {"True", "False"},
                    p \in {{}, {"DiskPressure"}, {"MemoryPressure", "PIDPressure"}}}

NodeLists == SeqsUpTo(NodeItems, MaxListedNodes)

ReadyCount(items) == Cardinality({k \in DOMAIN items : items[k].ready = "True"})

(* ---- NodeChecker.check (services/checkers/node_checker.py) ---- *)
NodeChecker_check(items) ==
  LET total == Len(items)
      ready_count == ReadyCount(items)
      not_ready_nodes == {k \in DOMAIN items : items[k].ready # "True"}
      issues == {<< k, c >> \in (DOMAIN items) \X PRESSURE_CONDITIONS : c \in items[k].pressure}
  IN IF ready_count = 0 /\ total > 0
     THEN [status |-> "critical",
           message |-> "All " \o ToString(total) \o " nodes NotReady"]
     ELSE IF not_ready_nodes # {} \/ issues # {}
     THEN [status |-> "warning",
           message |-> "Nodes " \o ToString(ready_count) \o "/" \o ToString(total)
                         \o " Ready, " \o ToString(Cardinality(issues)) \o " pressure issues"]
     ELSE [status |-> "healthy",
           message |-> "All " \o ToString(total) \o " nodes Ready"]

(* ---- NodesChecker.check (checkers/nodes.py) ---- *)
NodesChecker_check(env) ==
  IF env.kind = "timeout"
  THEN [status |-> "critical", message |-> "Nodes check timed out"]
  ELSE IF env.kind = "error"
  THEN [status |-> "critical", message |-> "Nodes check failed: FileNotFoundError"]
  ELSE IF env.returncode # 0
  THEN [status |-> "critical", message |-> "Failed to get nodes: " \o env.stderr]
  ELSE
    LET nodes == env.items
        total_nodes == Len(nodes)
        ready_nodes == ReadyCount(nodes)
        nodes_with_issues == {k \in DOMAIN nodes : nodes[k].pressure # {}}
        first == IF total_nodes = 0
                 THEN [status |-> "critical", message |-> "No nodes found in cluster"]
                 ELSE IF ready_nodes = 0
                 THEN [status |-> "critical", message |-> "All nodes are NotReady"]
                 ELSE IF ready_nodes < total_nodes
                 THEN [status |-> "warning",
                       message |-> ToString(ready_nodes) \o "/" \o ToString(total_nodes)
                                     \o " nodes Ready"]
                 ELSE [status |-> "healthy",
                       message |-> "All " \o ToString(total_nodes) \o " nodes Ready"]
    IN IF nodes_with_issues # {} /\ first.status = "healthy"
       THEN [status |-> "warning",
             message |-> first.message \o " (" \o ToString(Cardinality(nodes_with_issues))
                           \o " with pressure issues)"]
       ELSE first

(* what kubectl get nodes -o json can answer *)
NodesCheckerEnvs == {KubectlEnv("exit", 0, its) : its \in NodeLists} \cup KubectlFailures

(* ======================================================================= *)
(* EtcdChecker (services/checkers/etcd_checker.py)                         *)
(* ======================================================================= *)
(* ---- EtcdChecker._parse_etcdctl ---- *)
_parse_etcdctl(env, pod_name) ==
  LET mb == ToString(DbSizeMb(env.dbSize))
  IN IF DbLarge(env.dbSize)
     THEN Returned("warning", "etcd DB large (" \o mb \o "MB)", env.ms,
                   Details({"pod_name", "is_leader", "db_size_mb", "pods"}))
     ELSE Returned("healthy",
            "etcd " \o (IF env.is_leader THEN "Leader" ELSE "Follower")
              \o " healthy - v" \o env.version \o ", DB: " \o mb
              \o "MB, Term: " \o ToString(env.raftTerm),
            env.ms, Details({"pod_name", "is_leader", "db_size_mb", "pods"}))

(* ---- EtcdChecker.check ---- *)
EtcdChecker_check(env) ==
  IF env.kind # "listed" THEN Raised(env.err)
  ELSE IF env.pods = <<>>
  THEN Returned("critical", "No etcd pods found in kube-system", 0, Details({"error"}))
  ELSE IF RunningPods(env.pods) = {}
  THEN Returned("critical", "No running etcd pods found", 0, Details({"pods"}))
  ELSE
    LET pod_name == env.pods[FirstRunning(env.pods)].name
        members == ToString(Len(env.pods))
        all_ready == \A k \in DOMAIN env.pods : env.pods[k].ready
        all_running == \A k \in DOMAIN env.pods : env.pods[k].phase = "Running"
    IN
    IF env.exec = "json" THEN _parse_etcdctl(env, pod_name)
    ELSE IF env.exec = "nonjson"
    THEN Returned(IF all_ready THEN "healthy" ELSE "warning",
           "etcd pod " \o pod_name \o (IF all_ready THEN " ready" ELSE " partially ready")
             \o " (" \o members \o " members)",
           env.ms, Details({"pod_name", "member_count", "pods"}))
    ELSE Returned(IF all_running THEN "healthy" ELSE "warning",
           "etcd pods " \o (IF all_running THEN "running" ELSE "mixed")
             \o " (" \o members \o " members) - exec unavailable",
           env.ms, Details({"pod_name", "member_count", "exec_error"}))

(* every list of etcd pods, by phase and readiness *)
EtcdPodLists ==
  {[k \in DOMAIN ps |-> EtcdPod("etcd-" \o ToString(k - 1), ps[k][1], ps[k][2])] :
     ps \in SeqsUpTo({"Running", "Pending"} \X BOOLEAN, MaxEtcdPods)}

(* every answer to the etcd-leader probe that comes back: the pod list,    *)
(* the outcome of the exec and the dbSize etcdctl reports                  *)
EtcdProbeEnvs ==
  {EtcdEnv("listed", ps, ex, size) :
     ps \in EtcdPodLists, ex \in {"json", "nonjson", "error"},
     size \in {0, EtcdDbLimit, EtcdDbLimit + 1}}
    \cup {EtcdEnv("list_error", <<>>, "json", 0)}

(* ======================================================================= *)
(* ControlPlaneChecker (services/checkers/control_plane_checker.py)        *)
(* ======================================================================= *)
(* the answer to GET /livez through the Kubernetes client: kind "ok", an   *)
(* ApiException with a status (0: no status), or any other exception       *)
LivezEnv(k, st, t) == [kind |-> k, status |-> st, ms |-> t]

LivezEnvs ==
  { LivezEnv("ok", 200, 50), LivezEnv("ok", 200, SlowThresholdMs),
    LivezEnv("ok", 200, SlowThresholdMs + 1),
    LivezEnv("api_exception", 401, 50), LivezEnv("api_exception", 499, 50),
    LivezEnv("api_exception", 500, 50), LivezEnv("api_exception", 503, 50),
    LivezEnv("api_exception", 0, 50), LivezEnv("error", 0, 50) }

(* ---- ControlPlaneChecker._check_api_server ---- *)
(* faulty variant: every ApiException is a warning *)
ControlPlaneChecker_check_api_server_lenient(env) ==
  IF env.kind = "ok"
  THEN [status |-> IF env.ms > SlowThresholdMs THEN "warning" ELSE "healthy", latency |-> env.ms]
  ELSE IF env.kind = "api_exception"
  THEN [status |-> "warning", latency |-> env.ms]
  ELSE [status |-> "critical", latency |-> env.ms]

ControlPlaneChecker_check_api_server(env) ==
  IF env.kind = "ok"
  THEN [status |-> IF env.ms > SlowThresholdMs THEN "warning" ELSE "healthy", latency |-> env.ms]
  ELSE IF env.kind = "api_exception"
  THEN [status |-> IF env.status # 0 /\ env.status < 500 THEN "warning" ELSE "critical",
        latency |-> env.ms]
  ELSE [status |-> "critical", latency |-> env.ms]

(* a pod of a component: its phase and whether all its containers are ready *)
ComponentPodLists == SeqsUpTo({"Running", "Pending"} \X BOOLEAN, MaxComponentPods)

RunningReady(pods) == Cardinality({k \in DOMAIN pods : pods[k][1] = "Running" /\ pods[k][2]})

(* lines 41-54: the status of one of _COMPONENTS *)
comp_status(pods) ==
  IF Len(pods) = 0 THEN "critical"
  ELSE IF RunningReady(pods) < Len(pods) THEN "warning"
  ELSE "healthy"

ControlPlaneEnvs ==
  {[livez |-> l, scheduler |-> s, controller_manager |-> c] :
     l \in LivezEnvs, s \in ComponentPodLists, c \in ComponentPodLists}

(* ---- ControlPlaneChecker.check ---- *)
ControlPlaneChecker_check(env) ==
  LET api == ControlPlaneChecker_check_api_server(env.livez)
      statuses == << api.status, comp_status(env.scheduler), comp_status(env.controller_manager) >>
      healthy_count == Cardinality({k \in DOMAIN statuses : statuses[k] = "healthy"})
  IN [status |-> IF \E k \in DOMAIN statuses : statuses[k] = "critical" THEN "critical"
                 ELSE IF \E k \in DOMAIN statuses : statuses[k] = "warning" THEN "warning"
                 ELSE "healthy",
      message |-> "Control Plane " \o ToString(healthy_count) \o "/" \o ToString(Len(statuses))
                    \o " healthy, API " \o ToString(api.latency) \o "ms"]

(* ======================================================================= *)
(* SystemPodChecker (services/checkers/system_pod_checker.py)              *)
(* ======================================================================= *)
_DAEMONSET_NAMES == {"Cilium CNI", "Calico CNI", "kube-proxy"}

SystemPodLists == SeqsUpTo({"Running", "Pending"} \X BOOLEAN, MaxSystemPods)

(* the addon checked, the pods under its label and the number of nodes *)
SystemPodEnvs ==
  {[name |-> n, pods |-> ps, total_nodes |-> k] :
     n \in {"Cilium CNI", "CoreDNS"}, ps \in SystemPodLists, k \in 0..MaxNodeCount}

(* f"{x:.0f}" of x = 100 * a / b: rounded to the nearest, ties to even *)
RoundedPct(a, b) ==
  LET q == (100 * a) \div b
      twice == 2 * ((100 * a) % b)
  IN IF twice > b THEN q + 1
     ELSE IF twice < b THEN q
     ELSE IF q % 2 = 0 THEN q ELSE q + 1

(* faulty variant: a Deployment without a ready pod only warns *)
SystemPodChecker_check_no_ready(env) ==
  LET total_pods == Len(env.pods)
      ready_pods == Cardinality({k \in DOMAIN env.pods :
                                   env.pods[k][1] = "Running" /\ env.pods[k][2]})
  IN IF env.name \in _DAEMONSET_NAMES
     THEN [status |-> IF ready_pods = 0 THEN "critical"
                      ELSE IF env.total_nodes = 0 \/ ready_pods < env.total_nodes THEN "warning"
                      ELSE "healthy",
           message |-> env.name]
     ELSE [status |-> IF total_pods = 0 THEN "critical"
                      ELSE IF ready_pods < total_pods THEN "warning"
                      ELSE "healthy",
           message |-> env.name]

(* ---- SystemPodChecker.check ---- *)
SystemPodChecker_check(env) ==
  LET total_pods == Len(env.pods)
      ready_pods == Cardinality({k \in DOMAIN env.pods :
                                   env.pods[k][1] = "Running" /\ env.pods[k][2]})
  IN IF env.name \in _DAEMONSET_NAMES
     THEN LET total_nodes == env.total_nodes
              \* ratio < 100 with ratio = ready_pods / total_nodes * 100, or 0
              below == IF total_nodes > 0 THEN ready_pods < total_nodes ELSE TRUE
              pct == IF total_nodes > 0 THEN RoundedPct(ready_pods, total_nodes) ELSE 0
          IN [status |-> IF ready_pods = 0 THEN "critical"
                         ELSE IF below THEN "warning"
                         ELSE "healthy",
              message |-> env.name \o " " \o ToString(ready_pods) \o "/"
                            \o ToString(total_nodes) \o " nodes (" \o ToString(pct) \o "%)"]
     ELSE [status |-> IF total_pods = 0 THEN "critical"
                      ELSE IF ready_pods = 0 THEN "critical"
                      ELSE IF ready_pods < total_pods THEN "warning"
                      ELSE "healthy",
           message |-> env.name \o " " \o ToString(ready_pods) \o "/"
                         \o ToString(total_pods) \o " Ready"]

(* ======================================================================= *)
(* ArgoCDChecker (services/checkers/argocd_checker.py)                     *)
(* ======================================================================= *)
(* an Application: status.sync.status and status.health.status, "Unknown"  *)
(* when the field is absent                                                *)
ArgoApp(s, h) == [sync |-> s, health |-> h]

ArgoApps ==
  {ArgoApp(s, h) : s \in {"Synced", "OutOfSync", "Unknown"},
                   h \in {"Healthy", "Progressing", "Degraded", "Missing", "Unknown"}}

(* the answer to list_namespaced_custom_object *)
ArgoEnvs ==
  {[kind |-> "listed", items |-> apps] : apps \in SeqsUpTo(ArgoApps, MaxApps)}
    \cup {[kind |-> "api_exception", items |-> <<>>]}

CountApps(apps, field, value) == Cardinality({k \in DOMAIN apps : apps[k][field] = value})

(* ---- ArgoCDChecker.check ---- *)
ArgoCDChecker_check(env) ==
  IF env.kind = "api_exception"
  THEN [status |-> "critical", message |-> "Failed to list ArgoCD apps: 403 Forbidden",
        problem_apps |-> {}]
  ELSE
    LET apps == env.items
        total == ToString(Len(apps))
        out_of_sync == CountApps(apps, "sync", "OutOfSync")
        degraded == CountApps(apps, "health", "Degraded")
        missing == CountApps(apps, "health", "Missing")
        app_details == {k \in DOMAIN apps :
                          apps[k].sync # "Synced"
                            \/ apps[k].health \notin {"Healthy", "Progressing"}}
    IN IF degraded > 0
       THEN [status |-> "critical",
             message |-> "ArgoCD: " \o ToString(degraded) \o " degraded, "
                           \o ToString(out_of_sync) \o " out-of-sync (total " \o total \o ")",
             problem_apps |-> app_details]
       ELSE IF out_of_sync > 0 \/ missing > 0
       THEN [status |-> "warning",
             message |-> "ArgoCD: " \o ToString(out_of_sync) \o " out-of-sync, "
                           \o ToString(missing) \o " missing (total " \o total \o ")",
             problem_apps |-> app_details]
       ELSE [status |-> "healthy",
             message |-> "ArgoCD: " \o total \o " apps all synced & healthy",
             problem_apps |-> app_details]

(* ======================================================================= *)
(* Playbook executor (services/playbook_executor.py)                       *)
(* ======================================================================= *)
(* the statistics of one host in the output of the JSON callback *)
HostStats(c, f, u) == [ok |-> 3, changed |-> c, failures |-> f, unreachable |-> u, skipped |-> 0]

HostStatsSet == {HostStats(c, f, u) : c \in 0..1, f \in 0..1, u \in 0..1}

(* a finished ansible-playbook process: whether stdout is JSON, the stats  *)
(* of its hosts, the return code                                           *)
PlaybookEnv(out, sts, rc) == [stdout |-> out, stats |-> sts, returncode |-> rc]

PlaybookEnvs ==
  {PlaybookEnv("json", sts, rc) : sts \in SeqsUpTo(HostStatsSet, MaxHosts), rc \in {0, 2}}
    \cup {PlaybookEnv("nonjson", <<>>, rc) : rc \in {0, 2}}

RECURSIVE SumOf(_, _)
SumOf(stats, field) ==
  IF stats = <<>> THEN 0 ELSE Head(stats)[field] + SumOf(Tail(stats), field)

(* ---- _parse_result ---- *)
(* faulty variant: changed tasks leave the run healthy *)
_parse_result_ignoring_changed(env) ==
  IF env.stdout # "json" \/ env.stats = <<>>
  THEN [status |-> IF env.returncode = 0 THEN "healthy" ELSE "critical", message |-> "Playbook"]
  ELSE [status |-> IF SumOf(env.stats, "failures") > 0 THEN "critical"
                   ELSE IF SumOf(env.stats, "unreachable") > 0 THEN "warning"
                   ELSE "healthy",
        message |-> "Playbook"]

_parse_result(env) ==
  IF env.stdout # "json"
  THEN IF env.returncode = 0
       THEN [status |-> "healthy",
             message |-> "Playbook completed successfully (non-JSON output)"]
       ELSE [status |-> "critical",
             message |-> "Playbook failed (rc=" \o ToString(env.returncode) \o "): "]
  ELSE IF env.stats = <<>>
  THEN IF env.returncode = 0
       THEN [status |-> "healthy", message |-> "Playbook completed"]
       ELSE [status |-> "critical", message |-> "Playbook failed"]
  ELSE
    LET total_ok == SumOf(env.stats, "ok")
        total_changed == SumOf(env.stats, "changed")
        total_failures == SumOf(env.stats, "failures")
        total_unreachable == SumOf(env.stats, "unreachable")
        hosts == ToString(Len(env.stats)) \o " host(s)"
    IN IF total_failures > 0
       THEN [status |-> "critical",
             message |-> "Failed: " \o ToString(total_failures)
                           \o " task(s) failed across " \o hosts]
       ELSE IF total_unreachable > 0
       THEN [status |-> "warning",
             message |-> "Warning: " \o ToString(total_unreachable) \o " host(s) unreachable"]
       ELSE IF total_changed > 0
       THEN [status |-> "warning",
             message |-> "Changed: " \o ToString(total_changed)
                           \o " task(s) changed across " \o hosts]
       ELSE [status |-> "healthy",
             message |-> "OK: All " \o ToString(total_ok) \o " task(s) passed across " \o hosts]

(* ======================================================================= *)
(* Families of answers of the outside world                                *)
(* ======================================================================= *)
(* every answer listed above: used where one operation is looked at *)
AllEnvs ==
  [etcd |-> EtcdEnvs, ansible |-> AnsibleEnvs, http |-> HttpEnvs,
   api |-> ApiEnvs, components |-> ComponentsEnvs, nodes |-> NodesEnvs,
   pods |-> PodsEnvs, checker |-> CheckerEnvs]

(* the answers to one run_check, with the HTTP answers on both sides of     *)
(* every threshold _run_http_check has                                     *)
DispatchEnvs ==
  [AllEnvs EXCEPT !.http = HttpEnvs \cup
     { HttpEnv("response", 200, SlowThresholdMs), HttpEnv("response", 404, 50),
       HttpEnv("response", 500, 50) }]

(* what one endpoint of the API server can answer, on both sides of the    *)
(* latency threshold                                                       *)
EndpointAnswers ==
  { Ok200,
    EndpointResp("response", 200, SlowThresholdMs),
    EndpointResp("response", 200, SlowThresholdMs + 1),
    EndpointResp("response", 200, 3 * SlowThresholdMs),
    EndpointResp("response", 503, 50),
    EndpointResp("timeout", 0, 0),
    EndpointResp("error", 0, 0) }

(* every combination of answers of the three endpoints *)
ApiServerEnvs ==
  [AllEnvs EXCEPT !.api =
     {ApiEnv("ok", h, l, r) : h \in EndpointAnswers, l \in EndpointAnswers,
                              r \in EndpointAnswers}
       \cup {ApiEnv("error", Ok200, Ok200, Ok200)}]

(* one answer per verdict: used where sequences of operations are looked at *)
FewEnvs ==
  [etcd |-> { EtcdEnv("list_error", <<>>, "json", 0),
              EtcdEnv("list_no_answer", <<>>, "json", 0),
              EtcdEnv("listed", OneReadyPod, "json", EtcdDbLimit),
              EtcdEnv("listed", OneReadyPod, "json", EtcdDbLimit + 1) },
   ansible |-> { AnsibleEnv("exit", 0), AnsibleEnv("exit", 2), AnsibleEnv("raise", 0) },
   http |-> { HttpEnv("response", 200, 50), HttpEnv("response", 503, 50),
              HttpEnv("timeout", 0, 0) },
   api |-> { ApiEnv("ok", Ok200, Ok200, Ok200),
             ApiEnv("ok", EndpointResp("response", 200, SlowThresholdMs), Ok200, Ok200),
             ApiEnv("ok", EndpointResp("response", 503, 50), Ok200, Ok200) },
   components |-> { KubectlEnv("exit", 0, << "True" >>), KubectlEnv("exit", 0, << "False" >>),
                    KubectlEnv("exit", 1, <<>>) },
   nodes |-> { KubectlEnv("exit", 0, << "True" >>), KubectlEnv("exit", 0, << "False" >>),
               KubectlEnv("exit", 0, << "True", "False" >>), KubectlEnv("timeout", 0, <<>>) },
   pods |-> { KubectlEnv("exit", 0, <<>>), KubectlEnv("exit", 0, << RestartLimit + 1 >>) },
   checker |-> { [kind |-> "return", status |-> "healthy"],
                 [kind |-> "return", status |-> "unknown"],
                 [kind |-> "raise", status |-> "critical"] }]

(* the answers to the daily checks of a scheduled run: a healthy and a     *)
(* failing API server, a ready and a not ready node                        *)
ScheduledEnvs ==
  [FewEnvs EXCEPT
     !.api = { ApiEnv("ok", Ok200, Ok200, Ok200),
               ApiEnv("ok", EndpointResp("response", 503, 50), Ok200, Ok200) },
     !.components = { KubectlEnv("exit", 0, << "True" >>) },
     !.nodes = { KubectlEnv("exit", 0, << "True" >>),
                 KubectlEnv("exit", 0, << "True", "False" >>) },
     !.pods = { KubectlEnv("exit", 0, <<>>) }]

(* ======================================================================= *)
(* State                                                                   *)
(* ======================================================================= *)
VARIABLES
  db,        \* committed rows: clusters, addons, check_logs, daily_check_logs
  session,   \* pending (flushed, not committed) changes of the running pass
  pc,        \* position of the worker
  pass,      \* arguments and local variables of the running or last operation
  result,    \* what the last finished operation gave its caller
  registry,  \* CheckerRegistry._checkers, in insertion order
  registered, \* the classes register() was called with, in call order
  k8s,       \* the default Configuration of the kubernetes package, and the
             \* threads that load it and build clients from it
  sched      \* the check_schedules rows and the locals of run_scheduled_check

vars == << db, session, pc, pass, result, registry, registered, k8s, sched >>

ScheduleTypes == {"manual", "morning"}

EmptySession ==
  [clusters |-> <<>>, addons |-> <<>>, check_logs |-> <<>>, daily_check_logs |-> <<>>]

NoResult == [op |-> "none", outcome |-> "none", exc |-> "", check_log |-> <<>>]

ReturnedNone(o) == [op |-> o, outcome |-> "returned", exc |-> "", check_log |-> <<>>]

ReturnedLog(o, log) == [op |-> o, outcome |-> "returned", exc |-> "", check_log |-> << log >>]

RaisedTo(o, e) == [op |-> o, outcome |-> "raised", exc |-> e, check_log |-> <<>>]

NoApiResult == [status |-> "critical", response_time_ms |-> NoneInt,
                details |-> [healthz |-> NoDetail, livez |-> NoDetail,
                             readyz |-> NoDetail, error |-> ""]]

(* the locals of an operation that has just been entered *)
NewPass(n, m, id, st) ==
  [no |-> n, mode |-> m, cluster_id |-> id, schedule_type |-> st,
   addons |-> <<>>, checkers |-> <<>>, i |-> 1, overall_status |-> "healthy", outcomes |-> <<>>,
   calls |-> [a \in AddonIds |-> 0],
   api_result |-> NoApiResult,
   components_result |-> [items |-> <<>>, has_error |-> FALSE, error |-> ""],
   nodes_result |-> [nodes |-> <<>>, total |-> 0, ready |-> 0, has_error |-> FALSE],
   pods_result |-> <<>>,
   results |-> <<>>]

InitialDb(addon_rows) ==
  [clusters |-> [c \in Clusters |-> [status |-> "healthy", updated_at |-> 0]],
   addons |-> addon_rows,
   check_logs |-> <<>>,
   daily_check_logs |-> <<>>]

(* ---- kubernetes client set-up of a probe (health_checker.py:91-102) ---- *)
(* one thread per orchestration pass; the two passes are for two clusters *)
Threads == {"t1", "t2"}

ClusterOf(t) == IF t = "t1" THEN "c1" ELSE "c2"

NoConfig == "None"

IdleThread == [pc |-> "idle", loaded |-> NoConfig, client |-> NoConfig,
               calls |-> <<>>, passes |-> 0]

(* ---- run_scheduled_check (celery_app.py) ---- *)
ClusterName(id) == "cluster-" \o id

(* the slots the beat schedule runs the task with *)
Slots == {"morning", "evening"}

(* the check_schedules row of a cluster, if it has one *)
NoSchedule ==
  [exists |-> FALSE, is_active |-> FALSE, morning_enabled |-> TRUE, noon_enabled |-> TRUE,
   evening_enabled |-> TRUE]

Schedule(active, m, n, e) ==
  [exists |-> TRUE, is_active |-> active, morning_enabled |-> m, noon_enabled |-> n,
   evening_enabled |-> e]

Schedules ==
  { NoSchedule, Schedule(TRUE, TRUE, TRUE, TRUE), Schedule(TRUE, FALSE, TRUE, TRUE),
    Schedule(FALSE, FALSE, TRUE, TRUE) }

NoTask ==
  [pc |-> "none", slot |-> "manual", schedules |-> [c \in Clusters |-> NoSchedule],
   clusters |-> <<>>, i |-> 1, results |-> <<>>, runs |-> [c \in Clusters |-> 0]]

NothingRunning ==
  /\ session = EmptySession
  /\ pc = "idle"
  /\ pass = NewPass(0, "none", "c1", "manual")
  /\ result = NoResult
  /\ registry = <<>>
  /\ registered = <<>>
  /\ k8s = [default |-> NoConfig, threads |-> [t \in Threads |-> IdleThread]]
  /\ sched = NoTask

Init ==
  /\ db = InitialDb([a1 |-> EtcdAddon, a2 |-> HttpAddon, b1 |-> ScriptAddon("c2")])
  /\ NothingRunning

(* a cluster with one addon of each kind *)
InitChecks ==
  /\ db = InitialDb([a1 |-> EtcdAddon, a2 |-> HttpAddon, a3 |-> ScriptAddon("c1"),
                     b1 |-> ScriptAddon("c2")])
  /\ NothingRunning

(* the merge loop of run_check about to run over a collection of outcomes  *)
(* of any severity a checker can return                                    *)
InitAggregate ==
  /\ db = InitialDb([a1 |-> EtcdAddon, a2 |-> HttpAddon, b1 |-> ScriptAddon("c2")])
  /\ session = EmptySession
  /\ pc = "aggregate"
  /\ \E statuses \in SeqsUpTo(CheckStatus, MaxOutcomes) :
       pass = [NewPass(1, "aggregate", "c1", "manual") EXCEPT
                 !.results = [k \in DOMAIN statuses |->
                    run(CheckerClass("components"), [kind |-> "return", status |-> statuses[k]])]]
  /\ result = NoResult
  /\ registry = <<>>
  /\ registered = <<>>
  /\ k8s = [default |-> NoConfig, threads |-> [t \in Threads |-> IdleThread]]
  /\ sched = NoTask

(* the worker is idle, every cluster has any of the schedule rows *)
InitScheduled ==
  /\ db = InitialDb([a1 |-> EtcdAddon, a2 |-> HttpAddon, b1 |-> ScriptAddon("c2")])
  /\ session = EmptySession
  /\ pc = "idle"
  /\ pass = NewPass(0, "none", "c1", "manual")
  /\ result = NoResult
  /\ registry = <<>>
  /\ registered = <<>>
  /\ k8s = [default |-> NoConfig, threads |-> [t \in Threads |-> IdleThread]]
  /\ \E rows \in [Clusters -> Schedules] : sched = [NoTask EXCEPT !.schedules = rows]

(* addons of registered and of unregistered types, with and without a      *)
(* script, with and without a mapped name                                  *)
InitDispatch ==
  /\ db = InitialDb([a1 |-> AddonRow("c1", "Nexus", "nexus", "None"),
                     a2 |-> AddonRow("c1", "Jenkins", "jenkins", "check_jenkins.yml"),
                     a3 |-> HttpAddon,
                     b1 |-> AddonRow("c2", "Ingress", "ingress", "None"),
                     b2 |-> ScriptAddon("c2")])
  /\ NothingRunning

(* db.commit(): every pending change becomes visible at once *)
(* faulty variant: the rows are written, the cluster status is not *)
CommitWithoutStatus(d, s) ==
  [clusters |-> d.clusters,
   addons |-> [a \in DOMAIN d.addons |->
                 IF a \in DOMAIN s.addons THEN s.addons[a] ELSE d.addons[a]],
   check_logs |-> d.check_logs \o s.check_logs,
   daily_check_logs |-> d.daily_check_logs \o s.daily_check_logs]

CommitSession(d, s) ==
  [clusters |-> [c \in Clusters |->
                   IF c \in DOMAIN s.clusters THEN s.clusters[c] ELSE d.clusters[c]],
   addons |-> [a \in DOMAIN d.addons |->
                 IF a \in DOMAIN s.addons THEN s.addons[a] ELSE d.addons[a]],
   check_logs |-> d.check_logs \o s.check_logs,
   daily_check_logs |-> d.daily_check_logs \o s.daily_check_logs]

(* the application serves requests once its modules are imported *)
Imported == Len(registered) >= MaxRegistered

CanStart == pc = "idle" /\ Imported /\ pass.no < MaxPasses

(* ======================================================================= *)
(* checkers/__init__.py: default_registry.register(...) at import time     *)
(* ======================================================================= *)
RegisterDefault ==
  /\ pc = "idle"
  /\ ~Imported
  /\ registry' = register(registry, CheckerClass(DefaultCheckers[Len(registered) + 1]))
  /\ registered' = Append(registered, CheckerClass(DefaultCheckers[Len(registered) + 1]))
  /\ UNCHANGED << db, session, pc, pass, result, k8s, sched >>

(* the value an operation returned *)
ReturnedValue(o, v) == [op |-> o, outcome |-> "returned", exc |-> "", check_log |-> << v >>]

(* get_registry().register(MyChecker), at any time after the import *)
Register ==
  /\ pc = "idle"
  /\ Imported
  /\ Len(registered) < MaxRegistered + MaxRegisterCalls
  /\ \E cls \in CheckerClasses :
       /\ registry' = register(registry, cls)
       /\ registered' = Append(registered, cls)
       /\ result' = ReturnedValue("register", cls)
  /\ UNCHANGED << db, session, pc, pass, k8s, sched >>

(* get_registry().get(name) *)
Get ==
  /\ pc = "idle"
  /\ \E name \in {"api-server", "etcd", "custom", "minio"} :
       result' = ReturnedValue("get", get(registry, name))
  /\ UNCHANGED << db, session, pc, pass, registry, registered, k8s, sched >>

(* ======================================================================= *)
(* HealthChecker.run_check                                                 *)
(* ======================================================================= *)
(* what an operation gives its caller when the cluster query finds no row: *)
(* run_check returns (lines 19-20), run_daily_check raises (lines 34-35)   *)
(* faulty variant: both return silently *)
cluster_not_found_silent(op, id) == ReturnedNone(op)

cluster_not_found(op, id) ==
  IF op = "run_daily_check"
  THEN RaisedTo(op, "ValueError: Cluster not found: " \o id)
  ELSE ReturnedNone(op)

(* lines 18-20: the cluster id resolves to nothing *)
RunCheckNotFound ==
  /\ CanStart
  /\ \E id \in ClusterIds \ Clusters :
       /\ pass' = NewPass(pass.no + 1, "addon", id, "manual")
       /\ result' = cluster_not_found("run_check", id)
  /\ UNCHANGED << db, session, pc, registry, registered, k8s, sched >>

(* lines 18-25 *)
RunCheckStart ==
  /\ CanStart
  /\ \E id \in Clusters : \E order \in Orderings(AddonsOf(db, id)) :
       pass' = [NewPass(pass.no + 1, "addon", id, "manual") EXCEPT !.addons = order]
  /\ pc' = "rc_loop"
  /\ result' = NoResult
  /\ UNCHANGED << db, session, registry, registered, k8s, sched >>

AddonOutcome(a, env, r) ==
  [addon_id |-> a, env |-> env, status |-> r.status, message |-> r.message,
   response_time |-> r.response_time, details |-> r.details,
   probe |-> Dispatched(db.addons[a]), path |-> RequestPath(db.addons[a])]

(* lines 30-45: the addon row and its CheckLog, pending in the session *)
(* faulty variant: the CheckLog of the addon is not added *)
UpdateAddonNoLog(sess, d, a, r, p) ==
  [sess EXCEPT
     !.addons = (a :> [d.addons[a] EXCEPT !.status = r.status,
                                          !.response_time = r.response_time,
                                          !.last_check = p.no]) @@ @]

UpdateAddon(sess, d, a, r, p) ==
  [sess EXCEPT
     !.addons = (a :> [d.addons[a] EXCEPT !.status = r.status,
                                          !.response_time = r.response_time,
                                          !.last_check = p.no]) @@ @,
     !.check_logs = Append(@, [pass |-> p.no, cluster_id |-> p.cluster_id,
                               addon_id |-> a, status |-> r.status])]

(* lines 27-51: one iteration of the loop over the addons *)
RunCheckAddon(E) ==
  /\ pc = "rc_loop"
  /\ pass.i <= Len(pass.addons)
  /\ LET a == pass.addons[pass.i]
     IN \E env \in EnvsFor(E, db.addons[a]) :
          IF ProbeBlocks(db.addons[a], env)
          THEN /\ pc' = "blocked"
               /\ pass' = [pass EXCEPT !.calls[a] = @ + 1]
               /\ UNCHANGED << session, result >>
          ELSE LET r == _check_addon(db.addons[a], env)
               IN IF r.raised
                  THEN /\ pc' = "idle"
                       /\ pass' = [pass EXCEPT !.calls[a] = @ + 1]
                       /\ session' = EmptySession
                       /\ result' = RaisedTo("run_check", r.exc)
                  ELSE /\ pc' = "rc_loop"
                       /\ pass' = [pass EXCEPT
                            !.calls[a] = @ + 1,
                            !.i = @ + 1,
                            !.outcomes = Append(@, AddonOutcome(a, env, r)),
                            !.overall_status = AggregateStep(@, r.status)]
                       /\ session' = UpdateAddon(session, db, a, r, pass)
                       /\ UNCHANGED result
  /\ UNCHANGED << db, registry, registered, k8s, sched >>

(* lines 53-63 *)
RunCheckFinish ==
  /\ pc = "rc_loop"
  /\ pass.i > Len(pass.addons)
  /\ session' = [session EXCEPT
       !.clusters = (pass.cluster_id :>
                       [status |-> pass.overall_status, updated_at |-> pass.no]) @@ @,
       !.check_logs = Append(@,
          [pass |-> pass.no, cluster_id |-> pass.cluster_id,
           addon_id |-> "None", status |-> pass.overall_status])]
  /\ pc' = "rc_commit"
  /\ UNCHANGED << db, pass, result, registry, registered, k8s, sched >>

(* line 65 *)
RunCheckCommit ==
  /\ pc = "rc_commit"
  /\ db' = CommitSession(db, session)
  /\ session' = EmptySession
  /\ pc' = "idle"
  /\ result' = ReturnedNone("run_check")
  /\ UNCHANGED << pass, registry, registered, k8s, sched >>

(* ======================================================================= *)
(* DailyChecker.run_daily_check                                            *)
(* ======================================================================= *)
(* lines 33-35 *)
DailyNotFound ==
  /\ CanStart
  /\ \E id \in ClusterIds \ Clusters : \E st \in ScheduleTypes :
       /\ pass' = NewPass(pass.no + 1, "daily", id, st)
       /\ result' = cluster_not_found("run_daily_check", id)
  /\ UNCHANGED << db, session, pc, registry, registered, k8s, sched >>

DailyStart ==
  /\ CanStart
  /\ \E id \in Clusters : \E st \in ScheduleTypes :
       pass' = NewPass(pass.no + 1, "daily", id, st)
  /\ pc' = "dc_api"
  /\ result' = NoResult
  /\ UNCHANGED << db, session, registry, registered, k8s, sched >>

(* line 38 *)
DailyCheckApiServer(E) ==
  /\ pc = "dc_api"
  /\ \E env \in E.api : pass' = [pass EXCEPT !.api_result = _check_api_server(env),
                          !.outcomes = Append(@, env)]
  /\ pc' = "dc_components"
  /\ UNCHANGED << db, session, result, registry, registered, k8s, sched >>

(* line 39 *)
DailyCheckComponents(E) ==
  /\ pc = "dc_components"
  /\ \E env \in E.components :
       pass' = [pass EXCEPT !.components_result = _check_components(env),
                          !.outcomes = Append(@, env)]
  /\ pc' = "dc_nodes"
  /\ UNCHANGED << db, session, result, registry, registered, k8s, sched >>

(* line 40 *)
DailyCheckNodes(E) ==
  /\ pc = "dc_nodes"
  /\ \E env \in E.nodes : pass' = [pass EXCEPT !.nodes_result = _check_nodes(env),
                          !.outcomes = Append(@, env)]
  /\ pc' = "dc_pods"
  /\ UNCHANGED << db, session, result, registry, registered, k8s, sched >>

(* line 41 *)
DailyCheckSystemPods(E) ==
  /\ pc = "dc_pods"
  /\ \E env \in E.pods : pass' = [pass EXCEPT !.pods_result = _check_system_pods(env),
                          !.outcomes = Append(@, env)]
  /\ pc' = "dc_build"
  /\ UNCHANGED << db, session, result, registry, registered, k8s, sched >>

(* lines 54-76: the DailyCheckLog object *)
BuildCheckLog(p) ==
  LET overall == _determine_overall_status(p.api_result, p.components_result, p.nodes_result)
      msgs == _collect_messages(p.api_result, p.components_result, p.nodes_result,
                                p.pods_result)
  IN [cluster_id |-> p.cluster_id,
      schedule_type |-> p.schedule_type,
      check_date |-> p.no,
      overall_status |-> overall,
      api_server_status |-> p.api_result.status,
      api_server_response_time_ms |-> p.api_result.response_time_ms,
      api_server_details |-> p.api_result.details,
      components_status |-> p.components_result,
      nodes_status |-> p.nodes_result.nodes,
      total_nodes |-> p.nodes_result.total,
      ready_nodes |-> p.nodes_result.ready,
      system_pods_status |-> p.pods_result,
      error_messages |-> ListOrNone(msgs.errors),
      warning_messages |-> ListOrNone(msgs.warnings)]

(* lines 43-82: status, messages, record, db.add, cluster.status *)
DailyBuild ==
  /\ pc = "dc_build"
  /\ LET log == BuildCheckLog(pass)
     IN /\ pass' = [pass EXCEPT !.overall_status = log.overall_status,
                                !.results = << log >>]
        /\ session' = [session EXCEPT
             !.daily_check_logs = Append(@,
                [pass |-> pass.no, cluster_id |-> pass.cluster_id,
                 overall_status |-> log.overall_status]),
             !.clusters = (pass.cluster_id :>
                             [status |-> log.overall_status, updated_at |-> pass.no]) @@ @]
  /\ pc' = "dc_commit"
  /\ UNCHANGED << db, result, registry, registered, k8s, sched >>

(* lines 84-87 *)
DailyCommit ==
  /\ pc = "dc_commit"
  /\ db' = CommitSession(db, session)
  /\ session' = EmptySession
  /\ pc' = "idle"
  /\ result' = ReturnedLog("run_daily_check", pass.results[1])
  /\ UNCHANGED << pass, registry, registered, k8s, sched >>

(* ======================================================================= *)
(* CheckerRegistry.run_all                                                 *)
(* ======================================================================= *)
(* lines 93-94 *)
RunAllStart ==
  /\ CanStart
  /\ \E enabled_only \in BOOLEAN :
       pass' = [NewPass(pass.no + 1, "run_all", "c1", "manual") EXCEPT
                  !.checkers = get_all_instances(registry, enabled_only)]
  /\ pc' = "ra_loop"
  /\ result' = NoResult
  /\ UNCHANGED << db, session, registry, registered, k8s, sched >>

(* results[checker.name] = result *)
PutResult(results, name, r) ==
  IF \E k \in DOMAIN results : results[k].name = name
  THEN [k \in DOMAIN results |->
          IF results[k].name = name THEN [results[k] EXCEPT !.result = r] ELSE results[k]]
  ELSE Append(results, [name |-> name, result |-> r])

(* lines 96-98: one iteration of the loop over the checkers *)
RunAllChecker(E) ==
  /\ pc = "ra_loop"
  /\ pass.i <= Len(pass.checkers)
  /\ LET checker == pass.checkers[pass.i]
     IN \E env \in E.checker :
          LET r == run(checker, env)
          IN IF r.raised
             THEN /\ pc' = "idle"
                  /\ pass' = [pass EXCEPT !.outcomes = Append(@, env)]
                  /\ result' = RaisedTo("run_all", "RuntimeError")
             ELSE /\ pc' = "ra_loop"
                  /\ pass' = [pass EXCEPT
                       !.i = @ + 1,
                       !.outcomes = Append(@, env),
                       !.results = PutResult(@, checker.name, r)]
                  /\ UNCHANGED result
  /\ UNCHANGED << db, session, registry, registered, k8s, sched >>

(* line 100 *)
RunAllReturn ==
  /\ pc = "ra_loop"
  /\ pass.i > Len(pass.checkers)
  /\ pc' = "idle"
  /\ result' = ReturnedNone("run_all")
  /\ UNCHANGED << db, session, pass, registry, registered, k8s, sched >>

(* ======================================================================= *)
(* The kubernetes client of _check_etcd_leader, one thread per pass        *)
(* ======================================================================= *)
(* the configuration lines 93-100 load for a cluster: its kubeconfig file  *)
(* when the path is set and the file exists, the in-cluster one otherwise  *)
ConfigFor(cluster_id, exists) ==
  IF exists THEN "kubeconfig " \o cluster_id ELSE "in-cluster"

(* lines 93-100: config.load_kube_config / load_incluster_config replace   *)
(* the default Configuration of the package                                *)
load_config(k, t, cfg) ==
  [k EXCEPT !.default = cfg, !.threads[t].loaded = cfg, !.threads[t].pc = "loaded"]

K8sLoadConfig(t) ==
  /\ k8s.threads[t].pc = "idle"
  /\ k8s.threads[t].passes < MaxClientPasses
  /\ \E exists \in BOOLEAN :
       k8s' = load_config(k8s, t, ConfigFor(ClusterOf(t), exists))
  /\ UNCHANGED << db, session, pc, pass, result, registry, registered, sched >>

(* line 102: client.CoreV1Api() takes a copy of the default Configuration *)
K8sCreateClient(t) ==
  /\ k8s.threads[t].pc = "loaded"
  /\ k8s' = [k8s EXCEPT !.threads[t].client = k8s.default, !.threads[t].pc = "client"]
  /\ UNCHANGED << db, session, pc, pass, result, registry, registered, sched >>

ApiCall(t, api) ==
  [api |-> api, cluster_id |-> ClusterOf(t), config |-> k8s.threads[t].client,
   loaded |-> k8s.threads[t].loaded]

(* lines 105-108: v1.list_namespaced_pod *)
K8sListPods(t) ==
  /\ k8s.threads[t].pc = "client"
  /\ k8s' = [k8s EXCEPT
              !.threads[t].calls = Append(@, ApiCall(t, "list_namespaced_pod")),
              !.threads[t].pc = "listed"]
  /\ UNCHANGED << db, session, pc, pass, result, registry, registered, sched >>

(* lines 161-171: k8s_stream(v1.connect_get_namespaced_pod_exec, ...) *)
K8sExec(t) ==
  /\ k8s.threads[t].pc = "listed"
  /\ k8s' = [k8s EXCEPT
              !.threads[t].calls = Append(@, ApiCall(t, "connect_get_namespaced_pod_exec")),
              !.threads[t].pc = "idle",
              !.threads[t].passes = @ + 1]
  /\ UNCHANGED << db, session, pc, pass, result, registry, registered, sched >>

(* ======================================================================= *)
(* Specifications                                                          *)
(* ======================================================================= *)
(* the steps of the operation the worker is in *)
PassStep(E) ==
  \/ RunCheckAddon(E)
  \/ RunCheckFinish
  \/ RunCheckCommit
  \/ DailyCheckApiServer(E)
  \/ DailyCheckComponents(E)
  \/ DailyCheckNodes(E)
  \/ DailyCheckSystemPods(E)
  \/ DailyBuild
  \/ DailyCommit
  \/ RunAllChecker(E)
  \/ RunAllReturn

(* Spec: up to MaxPasses operations, in any order, on any cluster id *)
Next ==
  \/ RegisterDefault
  \/ RunCheckNotFound
  \/ RunCheckStart
  \/ DailyNotFound
  \/ DailyStart
  \/ RunAllStart
  \/ PassStep(FewEnvs)

Spec == Init /\ [][Next]_vars

(* the worker keeps executing the operation it is in; what the outside     *)
(* world answers, and whether a new request arrives, is not up to it       *)
FairSpec == Spec /\ WF_vars(PassStep(FewEnvs))

(* SpecChecks: one run_check or one run_all from the initial database,     *)
(* against every answer of the outside world                               *)
FirstOp == pass.no = 0

NextChecks ==
  \/ RegisterDefault
  \/ (FirstOp /\ RunCheckNotFound)
  \/ (FirstOp /\ RunCheckStart)
  \/ RunCheckAddon(AllEnvs)
  \/ RunCheckFinish
  \/ RunCheckCommit
  \/ (FirstOp /\ RunAllStart)
  \/ RunAllChecker(AllEnvs)
  \/ RunAllReturn

SpecChecks == InitChecks /\ [][NextChecks]_vars

(* SpecDispatch: one run_check over addons of every kind of type           *)
NextDispatch ==
  \/ RegisterDefault
  \/ (FirstOp /\ RunCheckStart)
  \/ RunCheckAddon(DispatchEnvs)
  \/ RunCheckFinish
  \/ RunCheckCommit

SpecDispatch == InitDispatch /\ [][NextDispatch]_vars

(* SpecClients: two passes for two clusters, each in its thread, reach the  *)
(* kubernetes client set-up of the etcd-leader probe in any interleaving   *)
NextClients ==
  \E t \in Threads :
    \/ K8sLoadConfig(t)
    \/ K8sCreateClient(t)
    \/ K8sListPods(t)
    \/ K8sExec(t)

SpecClients == Init /\ [][NextClients]_vars

(* lines 47-51 of run_check: one iteration of the merge over an outcome *)
AggregateOutcome ==
  /\ pc = "aggregate"
  /\ pass.i <= Len(pass.results)
  /\ pass' = [pass EXCEPT !.i = @ + 1,
                          !.overall_status = AggregateStep(@, pass.results[pass.i].status)]
  /\ UNCHANGED << db, session, pc, result, registry, registered, k8s, sched >>

(* the collection is exhausted: the merged status is the overall status *)
AggregateEnd ==
  /\ pc = "aggregate"
  /\ pass.i > Len(pass.results)
  /\ pc' = "idle"
  /\ result' = ReturnedValue("aggregate", pass.overall_status)
  /\ UNCHANGED << db, session, pass, registry, registered, k8s, sched >>

(* SpecAggregate: the merge loop applied to one collection of outcomes *)
NextAggregate == AggregateOutcome \/ AggregateEnd

SpecAggregate == InitAggregate /\ [][NextAggregate]_vars

(* BaseChecker.run of the api-server checker: check() and its guard *)
ApiServerCheck(E) ==
  /\ pc = "idle"
  /\ Imported
  /\ result.op = "none"
  /\ \E env \in E.api :
       LET r == APIServerChecker_check(env)
           guarded == run(CheckerClass("api-server"),
                          IF r.raised THEN [kind |-> "raise", status |-> "critical"]
                          ELSE [kind |-> "return", status |-> r.status])
       IN result' = ReturnedValue("APIServerChecker.check",
                      [env |-> env, status |-> guarded.status,
                       response_time_ms |-> r.response_time_ms])
  /\ UNCHANGED << db, session, pc, pass, registry, registered, k8s, sched >>

(* SpecApiServer: the api-server probe of the checker and of the daily     *)
(* check, each run once against every combination of endpoint answers      *)
NextApiServer ==
  \/ RegisterDefault
  \/ ApiServerCheck(ApiServerEnvs)
  \/ (FirstOp /\ DailyStart)
  \/ DailyCheckApiServer(ApiServerEnvs)

SpecApiServer == Init /\ [][NextApiServer]_vars

(* the value a probe returned for an input *)
ProbeResult(o, input, r) ==
  ReturnedValue(o, [input |-> input, listed |-> TRUE, status |-> r.status, message |-> r.message])

(* NodeChecker(cluster).check() against a node list *)
NodeCheck ==
  /\ pc = "idle"
  /\ result.op = "none"
  /\ \E items \in NodeLists :
       result' = ProbeResult("NodeChecker.check", items, NodeChecker_check(items))
  /\ UNCHANGED << db, session, pc, pass, registry, registered, k8s, sched >>

(* NodesChecker().check(config) against an answer of kubectl *)
NodesCheck ==
  /\ pc = "idle"
  /\ result.op = "none"
  /\ \E env \in NodesCheckerEnvs :
       result' = [ProbeResult("NodesChecker.check", env.items, NodesChecker_check(env))
                    EXCEPT !.check_log[1].listed = (env.kind = "exit" /\ env.returncode = 0)]
  /\ UNCHANGED << db, session, pc, pass, registry, registered, k8s, sched >>

(* SpecNodes: each node checker run once against every node list *)
NextNodes == NodeCheck \/ NodesCheck

SpecNodes == Init /\ [][NextNodes]_vars

(* HealthChecker._check_etcd_leader against an answer of the cluster *)
EtcdLeaderCheck ==
  /\ pc = "idle"
  /\ result.op = "none"
  /\ \E env \in EtcdProbeEnvs :
       result' = ProbeResult("_check_etcd_leader", env, _check_etcd_leader(EtcdAddon, env))
  /\ UNCHANGED << db, session, pc, pass, registry, registered, k8s, sched >>

(* EtcdChecker(cluster).check() against an answer of the cluster *)
EtcdCheck ==
  /\ pc = "idle"
  /\ result.op = "none"
  /\ \E env \in EtcdProbeEnvs :
       LET r == EtcdChecker_check(env)
       IN result' = [ProbeResult("EtcdChecker.check", env, r)
                       EXCEPT !.outcome = IF r.raised THEN "raised" ELSE "returned",
                              !.exc = r.exc]
  /\ UNCHANGED << db, session, pc, pass, registry, registered, k8s, sched >>

(* SpecEtcd: each etcd-leader probe run once against every answer *)
NextEtcd == EtcdLeaderCheck \/ EtcdCheck

SpecEtcd == Init /\ [][NextEtcd]_vars

(* ControlPlaneChecker(cluster).check() against an answer of the cluster *)
ControlPlaneCheck ==
  /\ pc = "idle"
  /\ result.op = "none"
  /\ \E env \in ControlPlaneEnvs :
       result' = ProbeResult("ControlPlaneChecker.check", env, ControlPlaneChecker_check(env))
  /\ UNCHANGED << db, session, pc, pass, registry, registered, k8s, sched >>

(* SpecControlPlane: the control-plane probe run once against every answer *)
NextControlPlane == ControlPlaneCheck

SpecControlPlane == Init /\ [][NextControlPlane]_vars

(* SystemPodChecker(cluster, addon).check() against an answer of the cluster *)
SystemPodCheck ==
  /\ pc = "idle"
  /\ result.op = "none"
  /\ \E env \in SystemPodEnvs :
       result' = ProbeResult("SystemPodChecker.check", env, SystemPodChecker_check(env))
  /\ UNCHANGED << db, session, pc, pass, registry, registered, k8s, sched >>

(* SpecSystemPods: the system-pod probe run once against every answer *)
NextSystemPods == SystemPodCheck

SpecSystemPods == Init /\ [][NextSystemPods]_vars

(* ArgoCDChecker(cluster, addon).check() against an answer of the cluster *)
ArgoCDCheck ==
  /\ pc = "idle"
  /\ result.op = "none"
  /\ \E env \in ArgoEnvs :
       result' = [ProbeResult("ArgoCDChecker.check", env.items, ArgoCDChecker_check(env))
                    EXCEPT !.check_log[1].listed = (env.kind = "listed")]
  /\ UNCHANGED << db, session, pc, pass, registry, registered, k8s, sched >>

(* SpecArgoCD: the argocd probe run once against every answer *)
NextArgoCD == ArgoCDCheck

SpecArgoCD == Init /\ [][NextArgoCD]_vars

(* run_playbook, lines 74-82: the process ended and its output is parsed *)
RunPlaybook ==
  /\ pc = "idle"
  /\ result.op = "none"
  /\ \E env \in PlaybookEnvs :
       result' = ProbeResult("run_playbook", env, _parse_result(env))
  /\ UNCHANGED << db, session, pc, pass, registry, registered, k8s, sched >>

(* SpecPlaybook: one playbook run against every output of ansible *)
NextPlaybook == RunPlaybook

SpecPlaybook == Init /\ [][NextPlaybook]_vars

(* ======================================================================= *)
(* run_scheduled_check (celery_app.py)                                     *)
(* ======================================================================= *)
(* lines 75-87: the first active schedule of the cluster, and the test of  *)
(* the slot                                                                *)
skipped(schedule, schedule_type) ==
  IF schedule.exists /\ schedule.is_active
  THEN \/ schedule_type = "morning" /\ ~schedule.morning_enabled
       \/ schedule_type = "noon" /\ ~schedule.noon_enabled
       \/ schedule_type = "evening" /\ ~schedule.evening_enabled
  ELSE FALSE

(* lines 100-109: the entry of results for a finished check *)
ResultEntry(id, r) ==
  IF r.outcome = "raised"
  THEN [cluster |-> ClusterName(id), status |-> "", error |-> r.exc]
  ELSE [cluster |-> ClusterName(id), status |-> r.check_log[1].overall_status, error |-> ""]

(* lines 91-109: what the loop does once run_daily_check has ended *)
(* faulty variant: the exception of a check leaves the task *)
after_check_reraising(s, r) ==
  IF r.outcome = "raised"
  THEN [s EXCEPT !.pc = "done"]
  ELSE [s EXCEPT !.pc = "loop", !.i = @ + 1,
                 !.results = Append(@, ResultEntry(s.clusters[s.i], r))]

after_check(s, r) ==
  [s EXCEPT !.pc = "loop", !.i = @ + 1,
            !.results = Append(@, ResultEntry(s.clusters[s.i], r))]

(* lines 63-72: the task starts and reads the clusters *)
ScheduledStart ==
  /\ sched.pc = "none"
  /\ pc = "idle"
  /\ \E schedule_type \in Slots : \E order \in Orderings(Clusters) :
       sched' = [sched EXCEPT !.pc = "loop", !.slot = schedule_type, !.clusters = order]
  /\ UNCHANGED << db, session, pc, pass, result, registry, registered, k8s >>

(* lines 73-96: the next cluster is skipped, or its daily check starts *)
ScheduledVisit ==
  /\ sched.pc = "loop"
  /\ pc = "idle"
  /\ sched.i <= Len(sched.clusters)
  /\ LET id == sched.clusters[sched.i]
     IN IF skipped(sched.schedules[id], sched.slot)
        THEN /\ sched' = [sched EXCEPT !.i = @ + 1]
             /\ UNCHANGED << pc, pass, result >>
        ELSE /\ sched' = [sched EXCEPT !.pc = "wait", !.runs[id] = @ + 1]
             /\ pass' = NewPass(pass.no + 1, "daily", id, sched.slot)
             /\ pc' = "dc_api"
             /\ result' = NoResult
  /\ UNCHANGED << db, session, registry, registered, k8s >>

(* daily_checker.py line 84: the commit of the record raises *)
DailyCommitFails ==
  /\ pc = "dc_commit"
  /\ session' = EmptySession
  /\ pc' = "idle"
  /\ result' = RaisedTo("run_daily_check", "OperationalError")
  /\ UNCHANGED << db, pass, registry, registered, k8s, sched >>

(* lines 98-109: the check returned or raised, its entry is appended *)
ScheduledCollect ==
  /\ sched.pc = "wait"
  /\ pc = "idle"
  /\ sched' = after_check(sched, result)
  /\ result' = NoResult
  /\ UNCHANGED << db, session, pc, pass, registry, registered, k8s >>

(* lines 111-118: every cluster was visited *)
ScheduledReturn ==
  /\ sched.pc = "loop"
  /\ pc = "idle"
  /\ sched.i > Len(sched.clusters)
  /\ sched' = [sched EXCEPT !.pc = "done"]
  /\ result' = ReturnedValue("run_scheduled_check",
                 [schedule_type |-> sched.slot, results |-> sched.results])
  /\ UNCHANGED << db, session, pc, pass, registry, registered, k8s >>

(* SpecScheduled: one run of the task over the clusters; the worker keeps  *)
(* running the task it has started                                         *)
NextScheduled ==
  \/ ScheduledStart
  \/ ScheduledVisit
  \/ DailyCheckApiServer(ScheduledEnvs)
  \/ DailyCheckComponents(ScheduledEnvs)
  \/ DailyCheckNodes(ScheduledEnvs)
  \/ DailyCheckSystemPods(ScheduledEnvs)
  \/ DailyBuild
  \/ DailyCommit
  \/ DailyCommitFails
  \/ ScheduledCollect
  \/ ScheduledReturn

SpecScheduled == InitScheduled /\ [][NextScheduled]_vars /\ WF_vars(NextScheduled)

(* SpecRegistry: the import, then register and get calls in any order *)
NextRegistry == RegisterDefault \/ Register \/ Get

SpecRegistry == Init /\ [][NextRegistry]_vars

(* SpecDaily: one run_daily_check from the initial database, against every *)
(* answer of the outside world                                             *)
NextDaily ==
  \/ RegisterDefault
  \/ (FirstOp /\ DailyNotFound)
  \/ (FirstOp /\ DailyStart)
  \/ DailyCheckApiServer(AllEnvs)
  \/ DailyCheckComponents(AllEnvs)
  \/ DailyCheckNodes(AllEnvs)
  \/ DailyCheckSystemPods(AllEnvs)
  \/ DailyBuild
  \/ DailyCommit

SpecDaily == Init /\ [][NextDaily]_vars


(* ======================================================================= *)
(* Properties                                                              *)
(* ======================================================================= *)
(* run_check has gone through its cluster and has come back to its caller *)
RunCheckEnded ==
  pc = "idle" /\ pass.mode = "addon" /\ pass.cluster_id \in Clusters /\ pass.no > 0

RunCheckReturned == RunCheckEnded /\ result.outcome = "returned"

RunAllEnded == pc = "idle" /\ pass.mode = "run_all" /\ pass.no > 0

(* the probes whose function raised *)
Raisers(envs) == {k \in DOMAIN envs : envs[k].kind = "raise"}

(* what a pass stores for each addon: status, message, response time *)
Stored(o) == [status |-> o.status, message |-> o.message, response_time |-> o.response_time]

(* the outcomes of a pass over the addons ids whose probes meet the answers envs *)
PassOver(ids, envs) ==
  [j \in DOMAIN ids |-> Stored(_check_addon(db.addons[ids[j]], envs[j]))]

(* the results of run_all over the checkers cs whose check() meets envs *)
RunAllOver(cs, envs) ==
  [j \in DOMAIN cs |-> [name |-> cs[j].name, result |-> run(cs[j], envs[j])]]

OutcomeEnvs == [j \in DOMAIN pass.outcomes |-> pass.outcomes[j].env]

(* C1: when the probe of one addon (or one registered checker) raises, the *)
(* pass still ends normally with an outcome for every addon, the outcome   *)
(* of the raising one is critical, and the status and message of every     *)
(* other one are those of the pass from which the raising one is absent.   *)
C1_Isolation ==
  /\ RunCheckEnded =>
       /\ result.outcome = "returned"
       /\ Len(pass.outcomes) = Cardinality(AddonsOf(db, pass.cluster_id))
       /\ \A k \in Raisers(OutcomeEnvs) :
            /\ pass.outcomes[k].status = "critical"
            /\ Raisers(OutcomeEnvs) = {k} =>
                 [j \in 1..(Len(pass.outcomes) - 1) |-> Stored(Remove(pass.outcomes, k)[j])]
                   = PassOver(Remove(pass.addons, k), Remove(OutcomeEnvs, k))
  /\ RunAllEnded =>
       /\ result.outcome = "returned"
       /\ Len(pass.results) = Len(pass.checkers)
       /\ \A k \in Raisers(pass.outcomes) :
            /\ pass.results[k].result.status = "critical"
            /\ Raisers(pass.outcomes) = {k} =>
                 Remove(pass.results, k)
                   = RunAllOver(Remove(pass.checkers, k), Remove(pass.outcomes, k))

(* one of three probes raised, the two others answered, one of them healthy *)
C1_Witness ==
  /\ RunCheckReturned
  /\ Len(pass.outcomes) = 3
  /\ Cardinality(Raisers(OutcomeEnvs)) = 1
  /\ \E j \in DOMAIN pass.outcomes : pass.outcomes[j].status = "healthy"
  /\ \E j \in DOMAIN pass.outcomes : pass.outcomes[j].status = "warning"

OutcomeStatuses == [j \in DOMAIN pass.outcomes |-> pass.outcomes[j].status]

StatusSet == {OutcomeStatuses[j] : j \in DOMAIN OutcomeStatuses}

(* the rule of the overall severity *)
Worst(S) ==
  IF "critical" \in S THEN "critical"
  ELSE IF "warning" \in S THEN "warning"
  ELSE "healthy"

(* the cluster-level CheckLog rows of the last pass, as committed *)
OverallLogs ==
  SelectSeq(db.check_logs,
            LAMBDA row : row.pass = pass.no /\ row.addon_id = "None")

(* C2: the overall status run_check assigns to the cluster is critical if  *)
(* any addon outcome of the pass is critical, otherwise warning if any is  *)
(* warning, otherwise healthy.                                             *)
C2_OverallStatus ==
  RunCheckReturned =>
    /\ db.clusters[pass.cluster_id].status = Worst(StatusSet)
    /\ Len(OverallLogs) = 1
    /\ OverallLogs[1].status = Worst(StatusSet)

(* {healthy, warning, critical} gives critical *)
C2_Witness ==
  /\ RunCheckReturned
  /\ StatusSet = {"healthy", "warning", "critical"}
  /\ db.clusters[pass.cluster_id].status = "critical"

(* C3: the overall status of a pass is the same whatever the order in      *)
(* which the same addon outcomes are aggregated.                           *)
C3_OrderIndependent ==
  RunCheckReturned =>
    \A perm \in Orderings(DOMAIN OutcomeStatuses) :
      AggregateLoop([j \in DOMAIN perm |-> OutcomeStatuses[perm[j]]])
        = db.clusters[pass.cluster_id].status

(* a critical outcome was met before a warning one *)
C3_Witness ==
  /\ RunCheckReturned
  /\ \E j, k \in DOMAIN OutcomeStatuses :
       j < k /\ OutcomeStatuses[j] = "critical" /\ OutcomeStatuses[k] = "warning"

(* the CheckLog rows of the last pass for one addon *)
AddonLogs(a) ==
  SelectSeq(db.check_logs, LAMBDA row : row.pass = pass.no /\ row.addon_id = a)

OutcomeOf(a) == pass.outcomes[CHOOSE j \in DOMAIN pass.outcomes : pass.outcomes[j].addon_id = a]

(* C6: a pass of run_check over a cluster with N addons executes the probe *)
(* of each addon exactly once, stores for each addon the outcome of its    *)
(* own probe, and writes exactly one CheckLog per addon; the addons of     *)
(* other clusters are neither probed nor written.                          *)
C6_OncePerAddon ==
  RunCheckReturned =>
    /\ Len(pass.outcomes) = Cardinality(AddonsOf(db, pass.cluster_id))
    /\ \A a \in DOMAIN db.addons :
         IF a \in AddonsOf(db, pass.cluster_id)
         THEN /\ pass.calls[a] = 1
              /\ Cardinality({j \in DOMAIN pass.outcomes : pass.outcomes[j].addon_id = a}) = 1
              /\ Stored(OutcomeOf(a)) = Stored(_check_addon(db.addons[a], OutcomeOf(a).env))
              /\ db.addons[a].status = OutcomeOf(a).status
              /\ db.addons[a].response_time = OutcomeOf(a).response_time
              /\ db.addons[a].last_check = pass.no
              /\ Len(AddonLogs(a)) = 1
              /\ AddonLogs(a)[1].status = OutcomeOf(a).status
              /\ AddonLogs(a)[1].cluster_id = pass.cluster_id
         ELSE /\ pass.calls[a] = 0
              /\ db.addons[a].last_check # pass.no
              /\ AddonLogs(a) = <<>>

(* three addons, three different outcomes, each stored on its own row *)
C6_Witness ==
  /\ RunCheckReturned
  /\ Len(pass.outcomes) = 3
  /\ \E a, b, c \in AddonsOf(db, pass.cluster_id) :
       /\ db.addons[a].status = "healthy"
       /\ db.addons[b].status = "warning"
       /\ db.addons[c].status = "critical"
  /\ Len(db.check_logs) = 4


(* an orchestration pass is under way, or has come back *)
PassRunning == pc # "idle" /\ pass.mode \in {"addon", "daily"}

PassEnded == pc = "idle" /\ pass.no > 0 /\ pass.mode \in {"addon", "daily"}

(* the DailyCheckLog rows of the last pass, as committed *)
DailyLogs == SelectSeq(db.daily_check_logs, LAMBDA row : row.pass = pass.no)

(* the last pass has left exactly one overall record of its mode, and none *)
(* of the other mode                                                       *)
OneOverallRecord ==
  IF pass.mode = "daily"
  THEN Len(DailyLogs) = 1 /\ Len(OverallLogs) = 0
  ELSE Len(OverallLogs) = 1 /\ Len(DailyLogs) = 0

(* C4: every orchestration pass for an existing cluster eventually         *)
(* terminates, whatever the probes return, raise or fail to answer, and at *)
(* termination exactly one overall check record of the pass is persisted.  *)
C4_TerminatesWithOneRecord ==
  PassRunning ~> (PassEnded /\ result.outcome = "returned" /\ OneOverallRecord)

(* every overall record committed for cluster c, of either mode *)
OverallRecords(c) ==
  { [pass |-> db.check_logs[k].pass, status |-> db.check_logs[k].status] :
      k \in {j \in DOMAIN db.check_logs :
               db.check_logs[j].cluster_id = c /\ db.check_logs[j].addon_id = "None"} }
  \cup
  { [pass |-> db.daily_check_logs[k].pass, status |-> db.daily_check_logs[k].overall_status] :
      k \in {j \in DOMAIN db.daily_check_logs : db.daily_check_logs[j].cluster_id = c} }

MostRecent(c) ==
  CHOOSE r \in OverallRecords(c) : \A q \in OverallRecords(c) : q.pass <= r.pass

(* C5: in every committed database state, the stored status of a cluster   *)
(* is the overall severity of the record of the pass committed last for    *)
(* it, and the status carries the time of that record: no committed state  *)
(* has the new record with the old status, or the new status without the   *)
(* record.                                                                 *)
C5_StatusFollowsRecord ==
  \A c \in Clusters :
    IF OverallRecords(c) = {}
    THEN db.clusters[c].status = "healthy" /\ db.clusters[c].updated_at = 0
    ELSE /\ db.clusters[c].status = MostRecent(c).status
         /\ db.clusters[c].updated_at = MostRecent(c).pass
         /\ \A r, q \in OverallRecords(c) : r.pass = q.pass => r = q

(* a daily pass found the cluster critical, a later per-addon pass found   *)
(* it healthy                                                              *)
C5_Witness ==
  \E c \in Clusters :
    /\ Cardinality(OverallRecords(c)) = 2
    /\ \E k \in DOMAIN db.daily_check_logs :
         /\ db.daily_check_logs[k].cluster_id = c
         /\ db.daily_check_logs[k].overall_status = "critical"
         /\ db.daily_check_logs[k].pass < MostRecent(c).pass
    /\ db.clusters[c].status = "healthy"

(* nothing in the database or in the session carries the mark of the pass *)
PassWroteNothing ==
  /\ session = EmptySession
  /\ \A k \in DOMAIN db.check_logs : db.check_logs[k].pass # pass.no
  /\ \A k \in DOMAIN db.daily_check_logs : db.daily_check_logs[k].pass # pass.no
  /\ \A c \in Clusters : db.clusters[c].updated_at # pass.no
  /\ \A a \in DOMAIN db.addons : db.addons[a].last_check # pass.no

DailyReturned ==
  /\ PassEnded
  /\ pass.mode = "daily"
  /\ pass.cluster_id \in Clusters
  /\ result.outcome = "returned"

DailyLog == result.check_log[1]

(* the severity each built-in probe reports in the record *)
ComponentsSeverity(log) ==
  IF \E k \in DOMAIN log.components_status.items :
       log.components_status.items[k].status = "critical"
  THEN "critical" ELSE "healthy"

NodesSeverity(log) ==
  IF log.total_nodes > 0 /\ log.ready_nodes = 0 THEN "critical"
  ELSE IF log.ready_nodes < log.total_nodes THEN "warning"
  ELSE "healthy"

NoisyPods(log) ==
  SelectSeq(log.system_pods_status,
            LAMBDA pod : "restarts" \in DOMAIN pod /\ pod.restarts > RestartLimit)

PodsSeverity(log) == IF NoisyPods(log) # <<>> THEN "warning" ELSE "healthy"

(* C8: in daily-check mode the overall status of the record is the merge   *)
(* of the outcomes of all four built-in probes (API server, components,    *)
(* nodes, system pods): critical if any is critical, otherwise warning if  *)
(* any is warning, otherwise healthy.                                      *)
C8_DailyMergesAllProbes ==
  DailyReturned =>
    DailyLog.overall_status =
      Worst({DailyLog.api_server_status, ComponentsSeverity(DailyLog),
             NodesSeverity(DailyLog), PodsSeverity(DailyLog)})

(* a built-in probe failed: its subprocess exited non-zero, timed out or   *)
(* raised, or its HTTP call raised                                         *)
KubectlFailed(env) == env.kind \in {"timeout", "error"} \/ env.returncode # 0

ApiFailed(env) ==
  \/ env.client = "error"
  \/ env.healthz.kind = "error"
  \/ env.livez.kind = "error"
  \/ env.readyz.kind = "error"

SomeProbeFailed ==
  \/ ApiFailed(pass.outcomes[1])
  \/ \E k \in 2..4 : KubectlFailed(pass.outcomes[k])

(* C9: in daily-check mode a failure of a built-in probe does not escape   *)
(* run_daily_check and makes the overall status of the record critical.    *)
C9_DailyFailureIsCritical ==
  (PassEnded /\ pass.mode = "daily" /\ pass.cluster_id \in Clusters) =>
    /\ result.outcome = "returned"
    /\ SomeProbeFailed => DailyLog.overall_status = "critical"

(* the entry the stated format gives a probe outcome *)
Bracketed(name, message) == "[" \o name \o "] " \o message

ApiMessage(log) ==
  IF log.api_server_details.error # "" THEN log.api_server_details.error ELSE "Unhealthy"

CriticalComponents(log) ==
  SelectSeq(log.components_status.items, LAMBDA e : e.status = "critical")

NotReady(log) == log.total_nodes - log.ready_nodes

NodesMessage(log) == ToString(NotReady(log)) \o " node(s) not ready"

PodMessage(pod) == "Pod " \o pod.name \o " has " \o ToString(pod.restarts) \o " restarts"

(* the outcomes of the four probes in the order of their dispatch *)
ProbeOutcomes(log) ==
  << [name |-> "API Server", status |-> log.api_server_status, message |-> ApiMessage(log)],
     [name |-> "Components", status |-> ComponentsSeverity(log),
      message |-> IF CriticalComponents(log) # <<>>
                  THEN CriticalComponents(log)[1].message ELSE "ok"],
     [name |-> "Nodes", status |-> NodesSeverity(log), message |-> NodesMessage(log)],
     [name |-> "System Pods", status |-> PodsSeverity(log),
      message |-> IF NoisyPods(log) # <<>> THEN PodMessage(NoisyPods(log)[1]) ELSE "ok"] >>

EntriesAt(log, severity) ==
  LET at == SelectSeq(ProbeOutcomes(log), LAMBDA o : o.status = severity)
  IN [k \in DOMAIN at |-> Bracketed(at[k].name, at[k].message)]

Count(b) == IF b THEN 1 ELSE 0

Checked == IF RunCheckReturned THEN DOMAIN pass.outcomes ELSE {}

AddonChecked(j) == db.addons[pass.outcomes[j].addon_id]

(* C11: for an addon whose type has an entry in CHECKER_REGISTRY the       *)
(* dispatcher runs the probe registered for that type; the script and the  *)
(* generic HTTP fallbacks run only for types without an entry.             *)
C11_RegisteredProbeRuns ==
  \A j \in Checked :
    IF AddonChecked(j).type \in DOMAIN CHECKER_REGISTRY
    THEN pass.outcomes[j].probe = CHECKER_REGISTRY[AddonChecked(j).type]
    ELSE pass.outcomes[j].probe \in {"_run_ansible_check", "_run_http_check"}


(* the path the endpoint map gives an addon name *)
MappedPath(name) ==
  CASE name = "API Server" -> "/healthz"
    [] name = "etcd" -> "/health"
    [] name = "Metrics Server" -> "/metrics"
    [] OTHER -> "/healthz"

(* the probe answered as a healthy target does *)
HealthyAnswer(env) ==
  \/ env.kind = "exit" /\ env.returncode = 0
  \/ env.kind = "response" /\ env.status_code = 200 /\ env.ms <= SlowThresholdMs

(* C12: for an addon whose type has no registered probe the dispatcher     *)
(* runs the script check if and only if check_playbook is set; otherwise   *)
(* it runs one generic HTTP GET against the path mapped from the addon     *)
(* name, /healthz when the name has no mapping; the missing registration   *)
(* is never itself reported as an error.                                   *)
C12_FallbackChoice ==
  \A j \in Checked :
    AddonChecked(j).type \notin DOMAIN CHECKER_REGISTRY =>
      /\ pass.outcomes[j].probe = "_run_ansible_check"
           <=> AddonChecked(j).check_playbook # "None"
      /\ AddonChecked(j).check_playbook = "None" =>
           /\ pass.outcomes[j].probe = "_run_http_check"
           /\ pass.outcomes[j].path = MappedPath(AddonChecked(j).name)
      /\ pass.calls[pass.outcomes[j].addon_id] = 1
      /\ HealthyAnswer(pass.outcomes[j].env) => pass.outcomes[j].status = "healthy"

(* an unregistered type without a script and with an unmapped name was     *)
(* sent to /healthz, next to an unregistered type with a script            *)
C12_Witness ==
  /\ RunCheckReturned
  /\ \E j, k \in DOMAIN pass.outcomes :
       /\ AddonChecked(j).type = "ingress"
       /\ AddonChecked(j).check_playbook = "None"
       /\ pass.outcomes[j].path = "/healthz"
       /\ pass.outcomes[j].status = "healthy"
       /\ AddonChecked(k).type = "ingress"
       /\ pass.outcomes[k].probe = "_run_ansible_check"


(* the outcomes of the generic HTTP check whose request got env back *)
HttpChecked == {j \in Checked : pass.outcomes[j].probe = "_run_http_check"}

HttpAnswered == {j \in HttpChecked : pass.outcomes[j].env.kind = "response"}

C14_ServerErrorIsCritical ==
  \A j \in HttpAnswered :
    LET env == pass.outcomes[j].env
    IN /\ env.status_code >= 500 => pass.outcomes[j].status = "critical"
       /\ (env.status_code # 200 /\ env.status_code < 500)
            => pass.outcomes[j].status = "warning"

(* C14 as amended: every non-200 response, 500 and above included, yields  *)
(* warning, with the message "<name> returned <code>" and the measured     *)
(* time; the generic HTTP check is critical only when no response came.    *)
C14_Non200IsWarning ==
  \A j \in HttpChecked :
    LET env == pass.outcomes[j].env
        o == pass.outcomes[j]
    IN /\ (env.kind = "response" /\ env.status_code # 200) =>
            /\ o.status = "warning"
            /\ o.message = AddonChecked(j).name \o " returned " \o ToString(env.status_code)
            /\ o.response_time = env.ms
       /\ o.status = "critical" => env.kind # "response"

(* a 500 and a 404 in one pass, both warning *)
C14_Witness ==
  /\ RunCheckReturned
  /\ \E j, k \in HttpAnswered :
       /\ pass.outcomes[j].env.status_code = 500
       /\ pass.outcomes[j].status = "warning"
       /\ pass.outcomes[k].env.status_code = 404
       /\ pass.outcomes[k].status = "warning"

(* C15: every outcome of the dispatcher has a severity and a message, and  *)
(* its detail map is null only when the probe crashed before producing     *)
(* data, in which case the severity is critical: no healthy or warning     *)
(* outcome has a null detail map.                                          *)
C15_DetailsNullOnlyOnCrash ==
  \A j \in Checked :
    /\ pass.outcomes[j].status \in StatusEnum
    /\ pass.outcomes[j].message # ""
    /\ pass.outcomes[j].details.null =>
         /\ pass.outcomes[j].env.kind = "raise"
         /\ pass.outcomes[j].status = "critical"

(* C16: a probe whose external call does not answer within the timeout     *)
(* yields, for every probe kind, one critical outcome whose details carry  *)
(* a timeout marker, and the other addons of the batch are still checked.  *)
C16_TimeoutMarked ==
  \A j \in Checked :
    pass.outcomes[j].env.kind = "timeout" =>
      /\ pass.outcomes[j].status = "critical"
      /\ ~pass.outcomes[j].details.null
      /\ \E key \in pass.outcomes[j].details.keys : key \in {"timeout", "timed_out"}
      /\ Len(pass.outcomes) = Cardinality(AddonsOf(db, pass.cluster_id))


(* C17: two passes for different clusters that run concurrently never use  *)
(* each other's Kubernetes client or credentials: every API call a probe   *)
(* makes for a cluster is made with the configuration loaded for that      *)
(* cluster, under every interleaving of the load and create-client steps.  *)
C17_OwnConfiguration ==
  \A t \in Threads :
    \A k \in DOMAIN k8s.threads[t].calls :
      /\ k8s.threads[t].calls[k].config = k8s.threads[t].calls[k].loaded
      /\ k8s.threads[t].calls[k].config
           \in {ConfigFor(ClusterOf(t), TRUE), ConfigFor(ClusterOf(t), FALSE)}


(* the calls of register() that named a kind *)
RegisteredAs(name) == {k \in DOMAIN registered : registered[k].name = name}

(* the class of the latest of them *)
LastRegistered(name) ==
  IF RegisteredAs(name) = {} THEN NoneClass
  ELSE registered[CHOOSE k \in RegisteredAs(name) : \A j \in RegisteredAs(name) : j <= k]

MergedStatuses == {pass.results[k].status : k \in DOMAIN pass.results}

AnsweredOk(resp) == resp.kind = "response" /\ resp.status_code = 200

AverageMs(env) == (env.healthz.ms + env.livez.ms + env.readyz.ms) \div 3

ApiServerRule(env) ==
  IF env.client = "error" \/ ~AnsweredOk(env.healthz) \/ ~AnsweredOk(env.livez)
       \/ ~AnsweredOk(env.readyz)
  THEN "critical"
  ELSE IF AverageMs(env) > SlowThresholdMs THEN "warning"
  ELSE "healthy"

(* C20: the api-server probe is critical iff any of /healthz, /livez and   *)
(* /readyz answers non-200, times out or fails to connect; otherwise       *)
(* warning iff the average latency of the three requests exceeds 3000 ms;  *)
(* otherwise healthy; for APIServerChecker.check and for                   *)
(* DailyChecker._check_api_server alike.                                   *)
C20_ApiServerRule ==
  /\ result.op = "APIServerChecker.check" =>
       result.check_log[1].status = ApiServerRule(result.check_log[1].env)
  /\ (pass.mode = "daily" /\ pc = "dc_components") =>
       pass.api_result.status = ApiServerRule(pass.outcomes[1])

(* the status the probe table gives to a node list *)
NodeRule(items) ==
  IF Len(items) > 0 /\ ReadyCount(items) = 0 THEN "critical"
  ELSE IF \E k \in DOMAIN items : items[k].ready # "True" \/ items[k].pressure # {}
  THEN "warning"
  ELSE "healthy"

(* the ready count over the total, as a message reports it *)
ReadyRatio(items) == ToString(ReadyCount(items)) \o "/" \o ToString(Len(items))

ReportsRatio(message, items) ==
  \E pre \in {"", "Nodes "} :
    \E post \in {" nodes Ready"} \cup {" Ready, " \o ToString(n) \o " pressure issues" :
                                          n \in 0..(3 * MaxListedNodes + 3)} :
      message = pre \o ReadyRatio(items) \o post

NodeProbeReturned ==
  /\ result.op \in {"NodeChecker.check", "NodesChecker.check"}
  /\ result.check_log[1].listed

(* C21: for every node list the node-check probe is critical iff at least  *)
(* one node exists and no node is Ready; otherwise warning iff some node   *)
(* is not Ready or has DiskPressure, MemoryPressure or PIDPressure;        *)
(* otherwise healthy; and the message reports the ready count over the     *)
(* total when some but not all nodes are Ready.                            *)
C21_NodeRule ==
  NodeProbeReturned =>
    LET items == result.check_log[1].input
    IN /\ result.check_log[1].status = NodeRule(items)
       /\ (0 < ReadyCount(items) /\ ReadyCount(items) < Len(items))
            => ReportsRatio(result.check_log[1].message, items)

(* an etcd-leader probe has returned a verdict on the answer it got *)
EtcdProbed ==
  /\ result.op \in {"_check_etcd_leader", "EtcdChecker.check"}
  /\ result.outcome = "returned"

EtcdAnswer == result.check_log[1].input

(* the exec ran in a pod and its output parsed *)
EtcdctlParsed ==
  /\ EtcdProbed
  /\ EtcdAnswer.kind = "listed"
  /\ RunningPods(EtcdAnswer.pods) # {}
  /\ EtcdAnswer.exec = "json"

C23_NoUsablePodIsCritical ==
  (EtcdProbed /\ EtcdAnswer.kind = "listed"
     /\ \/ EtcdAnswer.pods = <<>>
        \/ RunningPods(EtcdAnswer.pods) = {}
        \/ \A k \in DOMAIN EtcdAnswer.pods : ~EtcdAnswer.pods[k].ready)
    => result.check_log[1].status = "critical"

(* C24: when the exec into the etcd pod raises but all etcd pods are       *)
(* Running, the etcd-leader probe is warning, not healthy.                 *)
C24_ExecUnusableIsWarning ==
  (EtcdProbed /\ EtcdAnswer.kind = "listed" /\ EtcdAnswer.pods # <<>>
     /\ (\A k \in DOMAIN EtcdAnswer.pods : EtcdAnswer.pods[k].phase = "Running")
     /\ EtcdAnswer.exec = "error")
    => result.check_log[1].status = "warning"

ControlPlaneProbed == result.op = "ControlPlaneChecker.check"

ZeroBackingPods(env) == env.scheduler = <<>> \/ env.controller_manager = <<>>

FewerReady(env) ==
  \/ RunningReady(env.scheduler) < Len(env.scheduler)
  \/ RunningReady(env.controller_manager) < Len(env.controller_manager)

(* the rule with "unreachable" read as: the request got no answer *)
ControlPlaneRule(env) ==
  IF env.livez.kind = "error" \/ ZeroBackingPods(env) THEN "critical"
  ELSE IF \/ env.livez.kind = "ok" /\ env.livez.ms > 3000
          \/ env.livez.kind = "api_exception" /\ env.livez.status \in 400..499
          \/ FewerReady(env)
  THEN "warning"
  ELSE "healthy"

(* C25: the control-plane probe is critical iff the API server is          *)
(* unreachable or the scheduler or the controller-manager has zero backing *)
(* pods; otherwise warning iff some sub-component is degraded (liveness    *)
(* latency above 3000 ms or a client-error status, or fewer                *)
(* Running-and-ready pods than pods); otherwise healthy.                   *)
C25_ControlPlaneRule ==
  ControlPlaneProbed =>
    result.check_log[1].status = ControlPlaneRule(result.check_log[1].input)

(* the rule with an error answer of status 500 or more, or without a       *)
(* status, counted with the unreachable API server                         *)
ControlPlaneRuleAmended(env) ==
  IF \/ env.livez.kind = "error"
     \/ env.livez.kind = "api_exception" /\ (env.livez.status = 0 \/ env.livez.status >= 500)
     \/ ZeroBackingPods(env)
  THEN "critical"
  ELSE IF \/ env.livez.kind = "ok" /\ env.livez.ms > 3000
          \/ env.livez.kind = "api_exception"
          \/ FewerReady(env)
  THEN "warning"
  ELSE "healthy"

(* C25, amended: the control-plane probe is critical iff the liveness      *)
(* request fails without an answer or is answered with an error status of  *)
(* 500 or more (or none), or the scheduler or the controller-manager has   *)
(* zero backing pods; otherwise warning iff the liveness latency is above  *)
(* 3000 ms, the answer is an error status below 500, or a component has    *)
(* fewer Running-and-ready pods than pods; otherwise healthy.              *)
C25_ControlPlaneRuleAmended ==
  ControlPlaneProbed =>
    result.check_log[1].status = ControlPlaneRuleAmended(result.check_log[1].input)

(* /livez answered 503 while both components had all their pods ready, and *)
(* the probe was critical                                                  *)
C25_Witness ==
  /\ ControlPlaneProbed
  /\ result.check_log[1].input.livez = LivezEnv("api_exception", 503, 50)
  /\ ~ZeroBackingPods(result.check_log[1].input)
  /\ ~FewerReady(result.check_log[1].input)
  /\ result.check_log[1].status = "critical"

SystemPodProbed == result.op = "SystemPodChecker.check"

IsDaemonSet(env) == env.name \in _DAEMONSET_NAMES

ReadyPods(env) ==
  Cardinality({k \in DOMAIN env.pods : env.pods[k][1] = "Running" /\ env.pods[k][2]})

(* what the ready pods are counted against *)
RatioBase(env) == IF IsDaemonSet(env) THEN env.total_nodes ELSE Len(env.pods)

(* C26: the system-pod probe is healthy iff its ready ratio is 100% (ready  *)
(* pods over node count for a DaemonSet addon, over total pods for a       *)
(* Deployment addon), warning iff the ratio is below 100% and above 0,     *)
(* critical iff the ready count is 0 (DaemonSet) or the total pod count is *)
(* 0 (Deployment); for every pod and node count, a node count of zero      *)
(* included.                                                               *)
C26_ReadyRatioRule ==
  SystemPodProbed =>
    LET env == result.check_log[1].input
        st == result.check_log[1].status
    IN /\ st = "healthy" <=> (RatioBase(env) > 0 /\ ReadyPods(env) = RatioBase(env))
       /\ st = "warning" <=> (RatioBase(env) > 0 /\ 0 < ReadyPods(env)
                                /\ ReadyPods(env) < RatioBase(env))
       /\ st = "critical" <=> IF IsDaemonSet(env) THEN ReadyPods(env) = 0
                              ELSE Len(env.pods) = 0

(* C26, amended: the system-pod probe is critical iff no pod is ready (for *)
(* a Deployment this includes having no pod at all); otherwise healthy iff *)
(* the ready pods are at least the node count, which is above 0            *)
(* (DaemonSet), or all pods are ready (Deployment); otherwise warning,     *)
(* which for a DaemonSet includes a node count of zero.                    *)
C26_ReadyCountRule ==
  SystemPodProbed =>
    LET env == result.check_log[1].input
        st == result.check_log[1].status
    IN /\ st = "critical" <=> ReadyPods(env) = 0
       /\ st = "healthy" <=>
            /\ ReadyPods(env) > 0
            /\ IF IsDaemonSet(env)
               THEN env.total_nodes > 0 /\ ReadyPods(env) >= env.total_nodes
               ELSE ReadyPods(env) = Len(env.pods)
       /\ st = "warning" <=>
            /\ ReadyPods(env) > 0
            /\ IF IsDaemonSet(env)
               THEN env.total_nodes = 0 \/ ReadyPods(env) < env.total_nodes
               ELSE ReadyPods(env) < Len(env.pods)

(* a Deployment addon had pods, none of them ready, and was critical *)
C26_Witness ==
  /\ SystemPodProbed
  /\ ~IsDaemonSet(result.check_log[1].input)
  /\ Len(result.check_log[1].input.pods) > 0
  /\ ReadyPods(result.check_log[1].input) = 0
  /\ result.check_log[1].status = "critical"

ArgoListed == result.op = "ArgoCDChecker.check" /\ result.check_log[1].listed

(* C27: for every list of ArgoCD applications the argocd probe is critical *)
(* iff some application is Degraded; otherwise warning iff some            *)
(* application is OutOfSync or Missing; and it is healthy only when every  *)
(* application is Synced and its health is Healthy or Progressing.         *)
C27_ArgoRule ==
  ArgoListed =>
    LET apps == result.check_log[1].input
        st == result.check_log[1].status
        someDegraded == \E k \in DOMAIN apps : apps[k].health = "Degraded"
        someDrift == \E k \in DOMAIN apps :
                       apps[k].sync = "OutOfSync" \/ apps[k].health = "Missing"
    IN /\ st = "critical" <=> someDegraded
       /\ ~someDegraded => (st = "warning" <=> someDrift)
       /\ st = "healthy" =>
            \A k \in DOMAIN apps :
              apps[k].sync = "Synced" /\ apps[k].health \in {"Healthy", "Progressing"}

(* a playbook ran and the statistics of its hosts were parsed *)
StatsParsed ==
  /\ result.op = "run_playbook"
  /\ result.check_log[1].input.stdout = "json"
  /\ result.check_log[1].input.stats # <<>>

PlaybookStats == result.check_log[1].input.stats

SomeHost(field) == \E k \in DOMAIN PlaybookStats : PlaybookStats[k][field] > 0

NoMessages(list) == list = ListOrNone(<<>>)

(* C29: in every DailyCheckLog of run_daily_check the overall status is    *)
(* consistent with the collected messages: the error list is non-empty iff *)
(* the overall status is critical, and the warning list is empty whenever  *)
(* the overall status is healthy.                                          *)
C29_StatusMatchesMessages ==
  DailyReturned =>
    /\ ~NoMessages(DailyLog.error_messages) <=> DailyLog.overall_status = "critical"
    /\ DailyLog.overall_status = "healthy" => NoMessages(DailyLog.warning_messages)

(* a cluster is skipped only when it has an active schedule with the slot  *)
(* of the task disabled                                                    *)
SlotDisabled(id) ==
  LET row == sched.schedules[id]
  IN /\ row.exists
     /\ row.is_active
     /\ \/ sched.slot = "morning" /\ ~row.morning_enabled
        \/ sched.slot = "noon" /\ ~row.noon_enabled
        \/ sched.slot = "evening" /\ ~row.evening_enabled

NotSkipped(id) == ~SlotDisabled(id)

(* the clusters the task has to check, in the order it visits them *)
ToCheck == SelectSeq(sched.clusters, NotSkipped)

(* the task has returned a results list with one entry per cluster to      *)
(* check, each under that cluster's name, after one daily check of each    *)
ScheduledComplete ==
  /\ sched.pc = "done"
  /\ result.op = "run_scheduled_check"
  /\ result.outcome = "returned"
  /\ Len(result.check_log[1].results) = Len(ToCheck)
  /\ \A k \in DOMAIN ToCheck :
       result.check_log[1].results[k].cluster = ClusterName(ToCheck[k])
  /\ \A id \in Clusters : sched.runs[id] = IF NotSkipped(id) THEN 1 ELSE 0

====
